---------------------------- MODULE Spec2Model ----------------------------
(***************************************************************************)
(* A model of the dnssync reconciliation engine (dnssync_lib):             *)
(*   - the process lock of locks.py (lock file + flock),                   *)
(*   - the circuit breaker of error_handling.py,                           *)
(*   - the tracking store of db_manager.py and the bulk run of core.py     *)
(*     with the queue scheduler and the cleanup pass of domains.py.        *)
(*   - the PowerDNS adapter of core.py (retry around the circuit breaker)  *)
(*     and the single-domain run of core.py.                               *)
(* Each part has its own specification (SpecLock, SpecCB, SpecAdapter,     *)
(* SpecRun, Spec, SpecQueue, SpecFair); the variables of the other parts   *)
(* stay at their initial value.                                            *)
(***************************************************************************)
EXTENDS Integers, Sequences, FiniteSets, TLC

VARIABLES
    now,               \* the wall clock, in units of 1/SubSecond second
    \* ---- locks.py
    lock_path,         \* inode LOCK_FILE names, 0 when the file does not exist
    inodes,            \* inode -> [data: <<>> or <<[pid, timestamp]>>, flock: holder or 0]
    lpc,               \* process -> position in acquire_lock / run / release_lock
    lock_file_handle,  \* process -> inode its open handle refers to, 0 when none
    lock_time,         \* process -> the timestamp it puts in lock_data (line 91)
    read_pid,          \* process -> the pid release_lock read from the file
    db_opened,         \* process -> it has constructed a DatabaseManager
    \* ---- error_handling.py
    cb_state,          \* CircuitBreaker.state
    failure_count,     \* CircuitBreaker.failure_count
    last_failure_time, \* CircuitBreaker.last_failure_time: <<>> (None) or <<t>>
    cb_pc,             \* "idle", or "in_call" inside the with-block
    op_calls,          \* number of times the wrapped operation was invoked
    cb_result,         \* outcome of the last call attempt
    fail_streak,       \* history: failures recorded since the last success
    \* ---- core.py PowerDnsApiAdapter, error_handling.py retry_with_backoff
    ad_pc,             \* position of the caller in an adapter call
    ad_op,             \* the adapter method being called
    retry_count,       \* `retry_count' of retry_with_backoff.wrapper
    ad_outcome,        \* what the last adapter call gave its caller
    backoffs,          \* history: time.sleep calls of the wrapper in the current call
    failed_calls,      \* history: calls that raised since the last call that returned
    last_response,     \* history: what pdns_req gave the current attempt
    \* ---- db_manager.py, domains.py, core.py
    store,             \* the rows of table domains, in rowid order
    affiliated,        \* what get_affiliated_domains returns (the cPanel side)
    bind_serial,       \* domain -> SOA serial BIND answers, <<>> when it has none
    pdns_serial,       \* domain -> SOA serial PowerDNS answers, <<>> when none
    rpc,               \* position of the running process in its run
    dryrun,            \* args.dryrun of the running process
    tracking,          \* `tracking' of _process_bulk_domains
    domain_tracking,   \* `domain_tracking' of process_domain_queue
    current_time,      \* `current_time' of process_domain_queue
    max_domains,       \* parameter of process_domain_queue
    distribution,      \* parameter of process_domain_queue
    todo,              \* the (queue_type, domain) pairs the loops have still to visit
    results,           \* `results' of process_domain_queue
    removed,           \* `domains_to_process' of the last handle_removed_zones
    save_map,          \* argument `tracking' of save_domain_tracking in progress
    save_i,            \* number of its items already upserted in the transaction
    txn,               \* the rows as the open transaction sees them
    after_save,        \* where the run goes on when save_domain_tracking returns
    delegated,         \* domains whose delegation check_authoritative_ns verifies
    db_map,            \* the map a caller of save_domain_tracking passes
    db_result,         \* what the last DatabaseManager call gave its caller
    run_start_store,   \* history: the store when the run started
    commits,           \* history: transactions committed by the run so far
    db_errors,         \* history: sqlite3 errors (database recreated) in the run
    remote_requests,   \* history: requests the run sent to PowerDNS, [kind, guarded]
    fix_calls,         \* history: the drifts fix_soa_drift was called for
    spc,               \* position in _process_single_domain
    sync_status        \* `sync_status' of _process_single_domain

lockVars == <<lock_path, inodes, lpc, lock_file_handle, lock_time, read_pid, db_opened>>
adVars == <<ad_pc, ad_op, retry_count, ad_outcome, backoffs, failed_calls, last_response>>
cbVars == <<cb_state, failure_count, last_failure_time, cb_pc, op_calls, cb_result, fail_streak,
            adVars>>
dbVars == <<db_map, db_result>>
envVars == <<affiliated, bind_serial, pdns_serial, delegated, dbVars>>
pqVars == <<domain_tracking, current_time, max_domains, distribution, todo, results>>
saveVars == <<save_map, save_i, txn, after_save>>
histVars == <<run_start_store, commits, db_errors>>
auxVars == <<remote_requests, fix_calls, spc, sync_status>>
runVars == <<store, envVars, rpc, dryrun, tracking, pqVars, removed, saveVars, histVars,
             auxVars>>
vars == <<now, lockVars, cbVars, runVars>>

\* Resolution of the clock: `now' counts units of 1/SubSecond second.
SubSecond == 2

Seconds(n) == n * SubSecond

(***************************************************************************)
(* locks.py                                                                *)
(***************************************************************************)
\* Number of processes that try to run (each has its own pid).
NumProcs == 3
\* The clock of SpecLock advances at most this many half-thresholds.
MaxLockTicks == 3

LOCK_STALE_THRESHOLD == 3600

Procs == 1..NumProcs
Inodes == 1..NumProcs

NoFile == 0

LockTick == Seconds(LOCK_STALE_THRESHOLD) \div 2

\* os.kill(pid, 0): the process with this pid exists.
PidExists(pid) == lpc[pid] \notin {"exited", "failed", "crashed"}

\* json.loads(f.read().strip() or '{}') and the two .get() calls: <<>> when the
\* file is empty (truncated and not yet written).
LockData(ino) == inodes[ino].data

\* The decision of acquire_lock lines 50-76 on the content read from the file.
MayTakeOver(data) ==
    LET lock_pid == IF data = <<>> THEN 0 ELSE data[1].pid
        pid_exists == IF lock_pid # 0 THEN PidExists(lock_pid) ELSE FALSE
        lock_is_stale == IF data = <<>> THEN FALSE
                         ELSE now - data[1].timestamp > Seconds(LOCK_STALE_THRESHOLD)
    IN  (~pid_exists \/ lock_is_stale) /\ (~pid_exists \/ lock_is_stale)

\* An inode no path and no process refers to yet.
FreshInode == CHOOSE i \in Inodes : inodes[i].used = FALSE

\* core.py main lines 191-193: the adapters are instantiated before
\* single_instance() is called; DomainManagerAdapter.__init__ constructs a
\* DatabaseManager, whose initialize_database connects to the database file
\* (creating it when missing), creates the table, and reads it.
MainAdapters(p) ==
    /\ lpc[p] = "main"
    /\ db_opened' = [db_opened EXCEPT ![p] = TRUE]
    /\ lpc' = [lpc EXCEPT ![p] = "start"]
    /\ UNCHANGED <<now, lock_path, inodes, lock_file_handle, lock_time, read_pid, cbVars, runVars>>

\* acquire_lock line 41: os.path.exists(LOCK_FILE); lines 87-95 when it does not.
AcquireCheck(p) ==
    /\ lpc[p] = "start"
    /\ IF lock_path = NoFile
         THEN /\ lpc' = [lpc EXCEPT ![p] = "open"]
              /\ lock_time' = [lock_time EXCEPT ![p] = now]
         ELSE /\ lpc' = [lpc EXCEPT ![p] = "read"]
              /\ UNCHANGED lock_time
    /\ UNCHANGED <<now, lock_path, inodes, lock_file_handle, read_pid, db_opened, cbVars, runVars>>

\* acquire_lock lines 43-84: open and read the file, decide; lines 87-95.
AcquireRead(p) ==
    /\ lpc[p] = "read"
    /\ IF lock_path = NoFile
         THEN \* open() raises: "Error checking lock file", sys.exit(1)
              /\ lpc' = [lpc EXCEPT ![p] = "failed"]
              /\ UNCHANGED lock_time
         ELSE IF MayTakeOver(LockData(lock_path))
                THEN /\ lpc' = [lpc EXCEPT ![p] = "open"]
                     /\ lock_time' = [lock_time EXCEPT ![p] = now]
                ELSE \* "Another instance is running", sys.exit(1)
                     /\ lpc' = [lpc EXCEPT ![p] = "failed"]
                     /\ UNCHANGED lock_time
    /\ UNCHANGED <<now, lock_path, inodes, lock_file_handle, read_pid, db_opened, cbVars, runVars>>

\* acquire_lock line 98: open(LOCK_FILE, 'w') creates the file or truncates it.
AcquireOpen(p) ==
    /\ lpc[p] = "open"
    /\ IF lock_path = NoFile
         THEN /\ lock_path' = FreshInode
              /\ inodes' = [inodes EXCEPT ![FreshInode] =
                                [data |-> <<>>, flock |-> 0, used |-> TRUE]]
              /\ lock_file_handle' = [lock_file_handle EXCEPT ![p] = FreshInode]
         ELSE /\ inodes' = [inodes EXCEPT ![lock_path].data = <<>>]
              /\ lock_file_handle' = [lock_file_handle EXCEPT ![p] = lock_path]
              /\ UNCHANGED lock_path
    /\ lpc' = [lpc EXCEPT ![p] = "write"]
    /\ UNCHANGED <<now, lock_time, read_pid, db_opened, cbVars, runVars>>

\* acquire_lock lines 100-101: write and flush the lock data.
AcquireWrite(p) ==
    /\ lpc[p] = "write"
    /\ inodes' = [inodes EXCEPT ![lock_file_handle[p]].data =
                      << [pid |-> p, timestamp |-> lock_time[p]] >>]
    /\ lpc' = [lpc EXCEPT ![p] = "flock"]
    /\ UNCHANGED <<now, lock_path, lock_file_handle, lock_time, read_pid, db_opened, cbVars, runVars>>

\* acquire_lock lines 104-121: flock(LOCK_EX | LOCK_NB); EAGAIN exits the process,
\* which closes its handle.
AcquireFlock(p) ==
    /\ lpc[p] = "flock"
    /\ IF inodes[lock_file_handle[p]].flock = 0
         THEN /\ inodes' = [inodes EXCEPT ![lock_file_handle[p]].flock = p]
              /\ lpc' = [lpc EXCEPT ![p] = "run"]
              /\ UNCHANGED lock_file_handle
         ELSE /\ lpc' = [lpc EXCEPT ![p] = "failed"]
              /\ lock_file_handle' = [lock_file_handle EXCEPT ![p] = 0]
              /\ UNCHANGED inodes
    /\ UNCHANGED <<now, lock_path, lock_time, read_pid, db_opened, cbVars, runVars>>

\* core.py main lines 214-235: the run ends and the finally clause calls release_lock.
RunEnds(p) ==
    /\ lpc[p] = "run"
    /\ lpc' = [lpc EXCEPT ![p] = "unlock"]
    /\ UNCHANGED <<now, lock_path, inodes, lock_file_handle, lock_time, read_pid, db_opened, cbVars, runVars>>

\* release_lock lines 126-130: flock(LOCK_UN) and close().
ReleaseUnlock(p) ==
    /\ lpc[p] = "unlock"
    /\ inodes' = [inodes EXCEPT ![lock_file_handle[p]].flock =
                      IF @ = p THEN 0 ELSE @]
    /\ lock_file_handle' = [lock_file_handle EXCEPT ![p] = 0]
    /\ lpc' = [lpc EXCEPT ![p] = "reread"]
    /\ UNCHANGED <<now, lock_path, lock_time, read_pid, db_opened, cbVars, runVars>>

\* release_lock lines 133-136: os.path.exists, then open and read the file.
ReleaseRead(p) ==
    /\ lpc[p] = "reread"
    /\ IF lock_path = NoFile
         THEN /\ lpc' = [lpc EXCEPT ![p] = "exited"]
              /\ UNCHANGED read_pid
         ELSE /\ read_pid' = [read_pid EXCEPT ![p] =
                                 IF LockData(lock_path) = <<>> THEN 0
                                 ELSE LockData(lock_path)[1].pid]
              /\ lpc' = [lpc EXCEPT ![p] = "unlink"]
    /\ UNCHANGED <<now, lock_path, inodes, lock_file_handle, lock_time, db_opened, cbVars, runVars>>

\* release_lock lines 139-148: os.unlink(LOCK_FILE) if the pid read is ours; the
\* path is unlinked whatever inode it names by now.
ReleaseUnlink(p) ==
    /\ lpc[p] = "unlink"
    /\ lock_path' = IF read_pid[p] = p THEN NoFile ELSE lock_path
    /\ lpc' = [lpc EXCEPT ![p] = "exited"]
    /\ UNCHANGED <<now, inodes, lock_file_handle, lock_time, read_pid, db_opened, cbVars, runVars>>

\* SIGTERM or SIGINT once the handlers are registered (lines 109-110):
\* signal_handler, lines 150-155, calls release_lock and then sys.exit(0).
\* During the run that is the release the run would end with.  When the
\* signal interrupts release_lock after its close() (line 130), the handler's
\* release_lock raises on the closed handle at line 129, which line 146
\* catches; line 148 clears the handle, and SystemExit ends the interrupted
\* call before it reads or unlinks the file.
Signal(p) ==
    /\ lpc[p] \in {"run", "reread", "unlink"}
    /\ lpc' = [lpc EXCEPT ![p] = IF lpc[p] = "run" THEN "unlock" ELSE "exited"]
    /\ UNCHANGED <<now, lock_path, inodes, lock_file_handle, lock_time, read_pid, db_opened,
                   cbVars, runVars>>

\* The process is killed (SIGKILL, power loss): the kernel closes its handle and
\* drops its flock; the lock file stays.
Crash(p) ==
    /\ lpc[p] \in {"read", "open", "write", "flock", "run", "unlock", "reread", "unlink"}
    /\ lpc' = [lpc EXCEPT ![p] = "crashed"]
    /\ inodes' = [i \in Inodes |->
                    [inodes[i] EXCEPT !.flock = IF @ = p THEN 0 ELSE @]]
    /\ lock_file_handle' = [lock_file_handle EXCEPT ![p] = 0]
    /\ UNCHANGED <<now, lock_path, lock_time, read_pid, db_opened, cbVars, runVars>>

TickLock ==
    /\ now + LockTick <= MaxLockTicks * LockTick
    /\ now' = now + LockTick
    /\ UNCHANGED <<lockVars, cbVars, runVars>>

InitLockVars ==
    /\ lock_path = NoFile
    /\ inodes = [i \in Inodes |-> [data |-> <<>>, flock |-> 0, used |-> FALSE]]
    /\ lpc = [p \in Procs |-> "main"]
    /\ db_opened = [p \in Procs |-> FALSE]
    /\ lock_file_handle = [p \in Procs |-> 0]
    /\ lock_time = [p \in Procs |-> 0]
    /\ read_pid = [p \in Procs |-> 0]

(***************************************************************************)
(* error_handling.py: CircuitBreaker                                       *)
(***************************************************************************)
\* Number of call attempts that reach the wrapped operation.
MaxCalls == 8
\* The clock of SpecCB advances at most this many half-timeouts.
MaxCbTicks == 7

failure_threshold == 5
recovery_timeout == 60

CbTickStep == Seconds(recovery_timeout) \div 2

\* __enter__ line 57: last_failure_time is set and the recovery timeout has elapsed.
RecoveryElapsedStrict ==
    /\ last_failure_time # <<>>
    /\ now >= last_failure_time[1] + Seconds(recovery_timeout)

RecoveryElapsed ==
    /\ last_failure_time # <<>>
    /\ now > last_failure_time[1] + Seconds(recovery_timeout)

\* CircuitBreaker.success, lines 75-80.
success_keeps_state ==
    /\ cb_state' = cb_state
    /\ failure_count' = 0
    /\ UNCHANGED last_failure_time

success ==
    /\ cb_state' = IF cb_state = "half-open" THEN "closed" ELSE cb_state
    /\ failure_count' = 0
    /\ UNCHANGED last_failure_time

\* CircuitBreaker.failure, lines 82-94.
failure_above_threshold ==
    /\ failure_count' = failure_count + 1
    /\ last_failure_time' = <<now>>
    /\ cb_state' = IF cb_state = "closed" /\ failure_count + 1 > failure_threshold
                     THEN "open"
                   ELSE IF cb_state = "half-open" THEN "open"
                   ELSE cb_state

failure ==
    /\ failure_count' = failure_count + 1
    /\ last_failure_time' = <<now>>
    /\ cb_state' = IF cb_state = "closed" /\ failure_count + 1 >= failure_threshold
                     THEN "open"
                   ELSE IF cb_state = "half-open" THEN "open"
                   ELSE cb_state

\* A call attempt, `with self.circuit_breaker:' reaching __enter__ (lines 53-62):
\* either CircuitBreakerError is raised (the with-body and __exit__ do not run)
\* or the wrapped operation is invoked.
cb_enter ==
    /\ cb_pc = "idle"
    /\ op_calls < MaxCalls
    /\ IF cb_state = "open" /\ ~RecoveryElapsed
         THEN /\ cb_result' = "rejected"
              /\ UNCHANGED <<cb_state, cb_pc, op_calls>>
         ELSE /\ cb_state' = IF cb_state = "open" THEN "half-open" ELSE cb_state
              /\ cb_pc' = "in_call"
              /\ op_calls' = op_calls + 1
              /\ cb_result' = "pending"
    /\ UNCHANGED <<now, failure_count, last_failure_time, fail_streak, lockVars, runVars>>

\* __exit__ lines 64-73 after the wrapped operation returned (exc_type is None)
\* or raised.
cb_exit(ok) ==
    /\ cb_pc = "in_call"
    /\ cb_pc' = "idle"
    /\ IF ok
         THEN success /\ cb_result' = "success" /\ fail_streak' = 0
         ELSE failure /\ cb_result' = "failure" /\ fail_streak' = fail_streak + 1
    /\ UNCHANGED <<now, op_calls, lockVars, runVars>>

CbTick ==
    /\ now + CbTickStep <= MaxCbTicks * CbTickStep
    /\ now' = now + CbTickStep
    /\ UNCHANGED <<lockVars, cbVars, runVars>>

\* CircuitBreaker.__init__, lines 46-51.
InitCbVars ==
    /\ cb_state = "closed"
    /\ failure_count = 0
    /\ last_failure_time = <<>>
    /\ cb_pc = "idle"
    /\ op_calls = 0
    /\ cb_result = "none"
    /\ fail_streak = 0

(***************************************************************************)
(* core.py: PowerDnsApiAdapter; error_handling.py: retry_with_backoff      *)
(***************************************************************************)
\* Calls that raised in a row after which SpecAdapter starts no further call.
MaxFailedCalls == 2

\* @retry_with_backoff(max_retries=3, backoff_factor=2), core.py line 94.
max_retries == 3

Operations == {"get_zone", "update_zone", "delete_zone", "create_zone"}
\* What pdns_req gives: a 2xx response, a 404, a 5xx, or None after a
\* RequestException (pdns.py lines 33-40).
Responses == {"ok", "not_found", "server_error", "no_response"}
Transient == {"server_error", "no_response"}

\* A request reaches PowerDNS; guarded: it is sent inside the with-block of
\* the adapter's circuit breaker.
Request(kind) == [kind |-> kind, guarded |-> cb_pc = "in_call"]

\* The with-body raises: only get_zone does (line 109), for anything but a
\* 2xx or a 404; update_zone, delete_zone and create_zone return a bool.
body_raises_on_404(op, resp) == op = "get_zone" /\ resp # "ok"

body_raises(op, resp) == op = "get_zone" /\ resp \in Transient

\* What the with-body returns when it does not raise.
body_value(op, resp) ==
    IF op = "get_zone"
      THEN (IF resp = "ok" THEN "zone" ELSE "not_found")
      ELSE (IF resp = "ok" THEN "true" ELSE "false")

\* The caller invokes a decorated method: wrapper lines 113-114, retry_count = 0.
AdCall(op) ==
    /\ ad_pc = "idle"
    /\ ad_pc' = "try"
    /\ ad_op' = op
    /\ retry_count' = 0
    /\ ad_outcome' = "none"
    /\ backoffs' = 0
    /\ UNCHANGED <<now, cb_state, failure_count, last_failure_time, cb_pc, op_calls, cb_result,
                   fail_streak, failed_calls, last_response, lockVars>>

\* A wrapper that compared with `>=' after the sleep: one attempt more, and a
\* sleep before the error is re-raised.
AdRaiseOneMore(err) ==
    /\ retry_count' = retry_count + 1
    /\ backoffs' = backoffs + 1
    /\ IF retry_count > max_retries
         THEN /\ ad_pc' = "idle"
              /\ ad_outcome' = err
              /\ failed_calls' = failed_calls + 1
         ELSE /\ ad_pc' = "try"
              /\ UNCHANGED <<ad_outcome, failed_calls>>

\* wrapper lines 118-130, except clause: the exception of an attempt is
\* counted; when the budget is spent it is re-raised to the caller, otherwise
\* the wrapper sleeps backoff_factor ** retry_count seconds and tries again.
AdRaise(err) ==
    /\ retry_count' = retry_count + 1
    /\ IF retry_count + 1 > max_retries
         THEN /\ ad_pc' = "idle"
              /\ ad_outcome' = err
              /\ failed_calls' = failed_calls + 1
              /\ UNCHANGED backoffs
         ELSE /\ ad_pc' = "try"
              /\ backoffs' = backoffs + 1
              /\ UNCHANGED <<ad_outcome, failed_calls>>

\* wrapper line 117: the attempt returned, and so does the call.
AdReturn(val) ==
    /\ ad_pc' = "idle"
    /\ ad_outcome' = val
    /\ failed_calls' = 0
    /\ UNCHANGED <<retry_count, backoffs>>

\* An attempt reaches `with self.circuit_breaker:'.  A CircuitBreakerError
\* of __enter__ is raised inside the wrapper's try block.
AdEnter ==
    /\ ad_pc = "try"
    /\ cb_enter
    /\ last_response' = "none"
    /\ IF cb_state = "open" /\ ~RecoveryElapsed
         THEN AdRaise("circuit_open")
         ELSE ad_pc' = "request" /\ UNCHANGED <<retry_count, ad_outcome, backoffs, failed_calls>>
    /\ UNCHANGED ad_op

\* The with-body of the method: pdns_req answers resp, the body returns or
\* raises, __exit__ records it, and the wrapper returns or handles the
\* exception.
AdRespond(resp) ==
    /\ ad_pc = "request"
    /\ last_response' = resp
    /\ cb_exit(~body_raises(ad_op, resp))
    /\ IF body_raises(ad_op, resp)
         THEN AdRaise("exception")
         ELSE AdReturn(body_value(ad_op, resp))
    /\ UNCHANGED ad_op

\* PowerDnsApiAdapter.__init__, lines 85-92; no call in progress.
InitAdVars ==
    /\ ad_pc = "idle"
    /\ ad_op = "none"
    /\ retry_count = 0
    /\ ad_outcome = "none"
    /\ backoffs = 0
    /\ failed_calls = 0
    /\ last_response = "none"

(***************************************************************************)
(* db_manager.py: the tracking store                                       *)
(***************************************************************************)
\* Number of domains of Spec and SpecQueue.
NumDomains == 2
\* The clock of Spec advances at most this many grace periods.
MaxRunTicks == 1
\* Corrections are followed while the serial they write is at most this.
MaxSerial == 112

BULK_MAX_DOMAINS == 10
BULK_DISTRIBUTION == <<4, 4, 2>>
GRACE_SECONDS == 3600
MAX_SOA_DRIFT == 5

Domains == 1..NumDomains
\* Enough domains to overfill the existing-domains quota of a bulk run.
FairDomains == 1..(BULK_DISTRIBUTION[2] + 1)
AllDomains == Domains \cup FairDomains

\* strftime("%Y-%m-%d %H:%M:%S") of a clock reading: whole seconds.
Strftime(t) == t \div SubSecond
\* strptime of such a string, as a clock reading.
Strptime(s) == Seconds(s)
\* A timestamp text that is not in that format (migrate_data.py copies the
\* second CSV column of the removed-zones file as it is): strptime raises.
BadTimestamp == -2
strptime_ok(s) == s >= 0
\* datetime.min, as a clock reading: before every time of the model.
datetime_min == -1

\* A Python dict domain -> {status, timestamp, ...} is the sequence of its items
\* in insertion order, each item a record [domain, status, timestamp, extra]:
\* extra holds the other keys of the inner dict, as the sequence of their
\* <<key, value>> pairs in insertion order.
Keys(t) == {t[i].domain : i \in 1..Len(t)}
Has(t, d) == d \in Keys(t)
Get(t, d) == t[CHOOSE i \in 1..Len(t) : t[i].domain = d]
Put(t, r) ==
    IF Has(t, r.domain)
      THEN [i \in 1..Len(t) |-> IF t[i].domain = r.domain THEN r ELSE t[i]]
      ELSE Append(t, r)
Del(t, d) == SelectSeq(t, LAMBDA r : r.domain # d)

\* The orders in which a Python set can be iterated.
Orderings(S) ==
    {s \in [1..Cardinality(S) -> S] : \A i, j \in 1..Cardinality(S) : i # j => s[i] # s[j]}

\* A row of table domains is [domain, status, timestamp, metadata]; column
\* metadata is NULL or the JSON text of the extension fields.
NULL == <<>>

\* A value of an extension field is [type, val]: a str, an int or None, the
\* values json.loads produces and json.dumps takes back.
\* json.dumps of one value: a quoted string, a number or null.
json_value(v) ==
    IF v.type = "str" THEN [tok |-> "string", text |-> v.val]
    ELSE IF v.type = "int" THEN [tok |-> "number", text |-> v.val]
    ELSE [tok |-> "null", text |-> "null"]

\* json.loads of one value token.
py_value(t) ==
    IF t.tok = "string" THEN [type |-> "str", val |-> t.text]
    ELSE IF t.tok = "number" THEN [type |-> "int", val |-> t.text]
    ELSE [type |-> "none", val |-> "None"]

\* json.dumps of a dict, line 136: an object whose members are in the order
\* of the dict, each a string token for the key and a token for the value.
json_dumps(extra) ==
    << [tok |-> "{", text |-> "{"] >>
    \o [i \in 1..(2 * Len(extra)) |->
          IF i % 2 = 1 THEN [tok |-> "string", text |-> extra[(i + 1) \div 2][1]]
                       ELSE json_value(extra[i \div 2][2])]
    \o << [tok |-> "}", text |-> "}"] >>

\* json.loads of such a text, line 110: the dict of its members, in order.
json_loads(text) ==
    [i \in 1..((Len(text) - 2) \div 2) |-> << text[2 * i].text, py_value(text[2 * i + 1]) >>]

\* Lines 134-136: the columns written for one item of the map.  A save that
\* kept only the two columns of the record would be to_row_without_metadata.
to_row_without_metadata(item) ==
    [domain |-> item.domain, status |-> item.status, timestamp |-> item.timestamp,
     metadata |-> NULL]

to_row(item) ==
    [domain |-> item.domain, status |-> item.status, timestamp |-> item.timestamp,
     metadata |-> IF item.extra = <<>> THEN NULL ELSE json_dumps(item.extra)]

\* Lines 100-112: the record built from one row.
from_row(row) ==
    [domain |-> row.domain, status |-> row.status, timestamp |-> row.timestamp,
     extra |-> IF row.metadata = NULL THEN <<>> ELSE json_loads(row.metadata)]

\* DatabaseManager.load_domain_tracking, lines 92-116: the rows as a dict.
load_domain_tracking(st) == [i \in 1..Len(st) |-> from_row(st[i])]

\* DatabaseManager.get_domains_by_status, lines 165-170.
get_domains_by_status(st, status) ==
    LET sel == SelectSeq(st, LAMBDA r : r.status = status)
    IN  [i \in 1..Len(sel) |-> sel[i].domain]

\* The transaction of save_domain_tracking, lines 128-153: one upsert per item
\* of the map; rows of domains that are not in the map are left as they are.
RECURSIVE Upsert(_, _)
Upsert(st, m) == IF m = <<>> THEN st ELSE Upsert(Put(st, to_row(Head(m))), Tail(m))

\* DatabaseManager._recreate_database, lines 54-90: the file is removed and an
\* empty table is created.
recreate_database == <<>>

\* What an sqlite3.Error in save_domain_tracking leaves in the file, lines
\* 156-163: the transaction is rolled back and the database recreated.
commit_partial(st, t) == t

on_save_error(st, t) == recreate_database

\* save_domain_tracking is called with map m (lines 125-128, BEGIN TRANSACTION).
BeginSave(m, next) ==
    /\ save_map' = m
    /\ save_i' = 0
    /\ txn' = store
    /\ after_save' = next
    /\ rpc' = "save"

\* Lines 130-150: the upsert of the next item, inside the transaction.
SaveRow ==
    /\ rpc = "save"
    /\ save_i < Len(save_map)
    /\ txn' = Put(txn, to_row(save_map[save_i + 1]))
    /\ save_i' = save_i + 1
    /\ UNCHANGED <<now, store, envVars, rpc, dryrun, tracking, pqVars, removed,
                   save_map, after_save, histVars, auxVars, lockVars, cbVars>>

\* Lines 153-154: commit; the rows of the transaction become the stored rows.
SaveCommit ==
    /\ rpc = "save"
    /\ save_i = Len(save_map)
    /\ store' = txn
    /\ txn' = <<>>
    /\ commits' = commits + 1
    /\ rpc' = after_save
    /\ UNCHANGED <<now, envVars, dryrun, tracking, pqVars, removed, save_map, save_i,
                   after_save, run_start_store, db_errors, auxVars, lockVars, cbVars>>

\* Lines 156-163: an upsert or the commit raises sqlite3.Error.
SaveError ==
    /\ rpc = "save"
    /\ store' = on_save_error(store, txn)
    /\ txn' = <<>>
    /\ db_errors' = db_errors + 1
    /\ rpc' = after_save
    /\ UNCHANGED <<now, envVars, dryrun, tracking, pqVars, removed, save_map, save_i,
                   after_save, run_start_store, commits, auxVars, lockVars, cbVars>>

(***************************************************************************)
(* db_manager.py: the calls of DatabaseManager as their callers see them   *)
(***************************************************************************)
NoCall ==
    [call |-> "none", kind |-> "none", arg |-> <<>>, status |-> "", value |-> <<>>,
     error |-> FALSE, before |-> <<>>]

InitDbVars ==
    /\ delegated = {}
    /\ db_map = <<>>
    /\ db_result = NoCall

\* _recreate_database, lines 64-69: os.remove of the file; a failure is logged
\* and the file stays as it is.
recreated(st, remove_ok) == IF remove_ok THEN recreate_database ELSE st

\* One call of load_domain_tracking, get_domains_by_status or
\* save_domain_tracking.  Without an sqlite3.Error the call returns `good' and
\* leaves `good_store'.  With one, the except clause runs _recreate_database
\* and returns `bad'; _recreate_database raises again (line 90) when the new
\* database cannot be created, and nothing in DatabaseManager catches that.
db_call(call, arg, status, kind, good, bad, good_store, err, remove_ok, create_ok) ==
    /\ rpc = "idle"
    /\ db_result.kind # "exception"
    /\ store' = IF err THEN recreated(store, remove_ok) ELSE good_store
    /\ db_result' = [call |-> call,
                     kind |-> IF err /\ ~create_ok THEN "exception" ELSE kind,
                     arg |-> arg,
                     status |-> status,
                     value |-> IF err THEN (IF create_ok THEN bad ELSE <<>>) ELSE good,
                     error |-> err,
                     before |-> store]
    /\ UNCHANGED <<now, affiliated, bind_serial, pdns_serial, delegated, db_map, rpc, dryrun, tracking,
                   pqVars, removed, saveVars, histVars, auxVars, lockVars, cbVars>>

\* load_domain_tracking, lines 92-120.
DbLoad(err, remove_ok, create_ok) ==
    db_call("load", <<>>, "", "map", load_domain_tracking(store), <<>>, store,
            err, remove_ok, create_ok)

\* get_domains_by_status, lines 165-174.
DbFilter(status, err, remove_ok, create_ok) ==
    db_call("filter", <<>>, status, "list", get_domains_by_status(store, status), <<>>, store,
            err, remove_ok, create_ok)

\* save_domain_tracking, lines 122-163, as one step.
DbSave(m, err, remove_ok, create_ok) ==
    db_call("save", m, "", "bool", <<TRUE>>, <<FALSE>>, Upsert(store, m),
            err, remove_ok, create_ok)

(***************************************************************************)
(* zones.py: check_zone_sync and fix_soa_drift                             *)
(***************************************************************************)
Abs(x) == IF x < 0 THEN 0 - x ELSE x
Max2(a, b) == IF a >= b THEN a ELSE b

\* A serial string that int() rejects (ValueError): not a one-number value.
Unparsable == <<0, 0>>

\* calculate_soa_drift, lines 195-215: None when a serial is None (line 206)
\* or int() raises ValueError (lines 213-215).
calculate_soa_drift_signed(b, p) ==
    IF b = <<>> \/ p = <<>> THEN <<>>
    ELSE IF Len(b) # 1 \/ Len(p) # 1 THEN <<>>
    ELSE << b[1] - p[1] >>

calculate_soa_drift_unparsed_as_zero(b, p) ==
    IF b = <<>> \/ p = <<>> THEN <<>>
    ELSE IF Len(b) # 1 \/ Len(p) # 1 THEN <<0>>
    ELSE << Abs(b[1] - p[1]) >>

calculate_soa_drift(b, p) ==
    IF b = <<>> \/ p = <<>> THEN <<>>
    ELSE IF Len(b) # 1 \/ Len(p) # 1 THEN <<>>
    ELSE << Abs(b[1] - p[1]) >>

\* The request check_zone_sync sends to the PowerDNS master: get_pdns_serial,
\* lines 163-193, called at line 248 when BIND gave a serial.  It is sent
\* by dns.resolver, whatever the state of the adapter's circuit breaker.
SoaQuery(d) == IF bind_serial[d] = <<>> THEN {} ELSE {Request("soa_query")}

\* check_zone_sync, lines 240-277, on the serials b of get_bind_serial and p
\* of get_pdns_serial.
sync_result(b, p) ==
    LET drift == calculate_soa_drift(b, p)
    IN  IF b = <<>>
          THEN [sync_status |-> "error", soa_drift |-> <<>>, bind_serial |-> b, pdns_serial |-> <<>>,
                error_message |-> "Failed to get BIND SOA serial"]
        ELSE IF p = <<>>
          THEN [sync_status |-> "error", soa_drift |-> <<>>, bind_serial |-> b, pdns_serial |-> p,
                error_message |-> "Failed to get PowerDNS SOA serial"]
        ELSE IF drift = <<>>
          THEN [sync_status |-> "error", soa_drift |-> <<>>, bind_serial |-> b, pdns_serial |-> p,
                error_message |-> "Failed to calculate SOA drift"]
        ELSE [sync_status |-> IF drift[1] = 0 THEN "success"
                              ELSE IF drift[1] <= MAX_SOA_DRIFT THEN "warning"
                              ELSE "error",
              soa_drift |-> drift, bind_serial |-> b, pdns_serial |-> p,
              error_message |-> IF drift[1] = 0 THEN ""
                                ELSE IF drift[1] <= MAX_SOA_DRIFT THEN "SOA drift detected"
                                ELSE "Critical SOA drift detected"]

\* check_zone_sync, lines 217-277.
check_zone_sync(d) == sync_result(bind_serial[d], pdns_serial[d])

\* fix_soa_drift line 303.
new_serial_from_bind(b, p) == b + 1

new_serial(b, p) == Max2(b, p) + 1

\* fix_soa_drift lines 328-341: the whmapi1 commands it runs.
fix_commands_always(dry) == {"edit_zone_record", "reloadzones"}

fix_commands(dry) == IF dry THEN {} ELSE {"edit_zone_record", "reloadzones"}

\* fix_soa_drift, lines 279-348, for domain d and the serials b and p it is
\* given.  ok: it finds the zone file and the SOA record, and whmapi1
\* succeeds.  The result is (success, message): the message of a success
\* names the serial it goes from and the serial it goes to; record is the
\* SOA record built at lines 330 and 333-335.
fix_soa_drift(d, b, p, dry, ok) ==
    IF b = <<>> \/ p = <<>> \/ Len(b) # 1 \/ Len(p) # 1 \/ ~ok
      THEN [success |-> FALSE, framing |-> "Failed", from |-> <<>>, to |-> <<>>,
            record |-> <<>>, commands |-> {}]
      ELSE [success |-> TRUE,
            framing |-> IF dry THEN "Would update SOA serial" ELSE "Updated SOA serial",
            from |-> b,
            to |-> << new_serial(b[1], p[1]) >>,
            record |-> << d, new_serial(b[1], p[1]) >>,
            commands |-> fix_commands(dry)]

(***************************************************************************)
(* domains.py: process_domain_queue                                        *)
(***************************************************************************)
\* get_timestamp, lines 198-205, as a clock reading.
get_timestamp(t, d) ==
    IF strptime_ok(Get(t, d).timestamp) THEN Strptime(Get(t, d).timestamp) ELSE datetime_min

\* The queue as the categorisation left it, in dict order.
DictOrder(t, ds) == ds

\* list.sort(key=get_timestamp), lines 207-209: a stable sort, oldest first.
SortByTimestamp(t, ds) ==
    LET n == Len(ds)
        key == [i \in 1..n |-> get_timestamp(t, ds[i])]
        \* The place of ds[i]: after the smaller keys and the equal keys before it.
        place == [i \in 1..n |->
                    Cardinality({j \in 1..n : key[j] < key[i] \/ (key[j] = key[i] /\ j <= i)})]
    IN  [k \in 1..n |-> ds[CHOOSE i \in 1..n : place[i] = k]]

\* What info.get('timestamp') gives for a record without a timestamp.  No
\* record that load_domain_tracking returns is one: the column is NOT NULL.
NoTimestamp == -1

\* The domains of the records of t, in order.
DomainsOf(t) == [i \in 1..Len(t) |-> t[i].domain]

\* Lines 183-195: the three categories, in dict order.
new_domains(t) ==
    DomainsOf(SelectSeq(t, LAMBDA r : r.status = "active" /\ r.timestamp = NoTimestamp))
existing_domains(t) ==
    DomainsOf(SelectSeq(t, LAMBDA r : r.status = "active" /\ r.timestamp # NoTimestamp))
orphan_domains(t) == DomainsOf(SelectSeq(t, LAMBDA r : r.status = "orphan"))

TakeOneMore(ds, n) == SubSeq(ds, 1, IF n + 1 < Len(ds) THEN n + 1 ELSE Len(ds))

\* Line 219: domains[:quota].
Take(ds, n) == SubSeq(ds, 1, IF n < Len(ds) THEN n ELSE Len(ds))

Tag(queue_type, ds) == [i \in 1..Len(ds) |-> [queue |-> queue_type, domain |-> ds[i]]]

\* Lines 211-219: queue_types with domains[:quota] of each queue, in order.
QueuePlan(new, existing, orphan, dist) ==
    Tag("new", Take(new, dist[1]))
      \o Tag("existing", Take(existing, dist[2]))
      \o Tag("orphan", Take(orphan, dist[3]))

\* Lines 218-235 on three given queues: the pairs the loops process.  The
\* `break' at line 224 leaves the loop of the current queue; the next queue's
\* loop meets it again at its first domain.
RECURSIVE Processed(_, _, _)
Processed(plan, total, max) ==
    IF plan = <<>> THEN <<>>
    ELSE IF total >= max
      THEN Processed(SelectSeq(plan, LAMBDA e : e.queue # Head(plan).queue), total, max)
      ELSE <<Head(plan)>> \o Processed(Tail(plan), total + 1, max)

SelectBatch(new, existing, orphan, dist, max) ==
    Processed(QueuePlan(new, existing, orphan, dist), 0, max)

CountQueue(batch, queue_type) == Len(SelectSeq(batch, LAMBDA e : e.queue = queue_type))

EmptyResults ==
    [total_processed |-> 0, success_count |-> 0, warning_count |-> 0,
     error_count |-> 0, domains |-> <<>>]

\* process_domain_queue lines 166-216: load, categorize, sort, queue_types.
PQLoad ==
    /\ rpc = "pq_start"
    /\ current_time' = Strftime(now)
    /\ domain_tracking' = load_domain_tracking(store)
    /\ results' = EmptyResults
    /\ \E t \in {load_domain_tracking(store)} :
       \E new \in {new_domains(t)}, existing \in {existing_domains(t)},
          orphan \in {orphan_domains(t)} :
       \E new_sorted \in {SortByTimestamp(t, new)},
          existing_sorted \in {SortByTimestamp(t, existing)},
          orphan_sorted \in {SortByTimestamp(t, orphan)} :
          todo' = QueuePlan(new_sorted, existing_sorted, orphan_sorted, distribution)
    /\ rpc' = "pq_loop"
    /\ UNCHANGED <<now, store, envVars, dryrun, tracking, max_domains, distribution,
                   removed, saveVars, histVars, auxVars, lockVars, cbVars>>

\* A loop that recorded a failed check in the entry but not in error_count.
CountWithoutErrors(res, d, s) ==
    [res EXCEPT !.total_processed = @ + 1,
                !.success_count = IF s.sync_status = "success" THEN @ + 1 ELSE @,
                !.warning_count = IF s.sync_status = "warning" THEN @ + 1 ELSE @,
                !.domains = Append(@, [domain |-> d, status |-> s.sync_status,
                                       message |-> s.error_message])]

\* Lines 237-248: the counters and the per-domain entry.
Count(res, d, s) ==
    [res EXCEPT !.total_processed = @ + 1,
                !.success_count = IF s.sync_status = "success" THEN @ + 1 ELSE @,
                !.warning_count = IF s.sync_status = "warning" THEN @ + 1 ELSE @,
                !.error_count = IF s.sync_status \notin {"success", "warning"} THEN @ + 1 ELSE @,
                !.domains = Append(@, [domain |-> d, status |-> s.sync_status,
                                       message |-> s.error_message])]

\* A loop that left the entry as the first check wrote it.
KeepSnapshot(res, d, u) == res

\* Lines 270-273: the entries of the domain take the status of the re-check.
Recheck(res, d, u) ==
    [res EXCEPT !.domains = [i \in 1..Len(@) |->
                                IF @[i].domain = d
                                  THEN [@[i] EXCEPT !.status = u.sync_status,
                                                    !.message = u.error_message]
                                  ELSE @[i]]]

\* Line 251: the drift is critical.
IsCriticalOrWarning(s) ==
    s.soa_drift # <<>> /\ s.soa_drift[1] # 0

IsCritical(s) ==
    s.sync_status = "error" /\ s.soa_drift # <<>> /\ s.soa_drift[1] # 0
      /\ s.soa_drift[1] > MAX_SOA_DRIFT

\* One pass of the inner loop, lines 221-275, or its `break'.  fix_ok: whether
\* fix_soa_drift finds the zone file and the SOA record and whmapi1 succeeds.
PQStep(fix_ok) ==
    /\ rpc = "pq_loop"
    /\ todo # <<>>
    /\ IF results.total_processed >= max_domains
         THEN /\ todo' = SelectSeq(todo, LAMBDA e : e.queue # Head(todo).queue)
              /\ fix_ok
              /\ UNCHANGED <<domain_tracking, results, bind_serial, remote_requests, fix_calls>>
         ELSE LET d == Head(todo).domain
                  s == check_zone_sync(d)
                  f == fix_soa_drift(d, s.bind_serial, s.pdns_serial, dryrun, fix_ok)
                  fixed == IsCritical(s) /\ f.success /\ "edit_zone_record" \in f.commands
                  serial == f.to[1]
              IN  /\ todo' = Tail(todo)
                  /\ domain_tracking' =
                        Put(domain_tracking, [Get(domain_tracking, d) EXCEPT !.timestamp = current_time])
                  /\ IsCritical(s) \/ fix_ok
                  /\ fixed => serial <= MaxSerial
                  /\ remote_requests' = remote_requests \cup SoaQuery(d)
                  /\ fix_calls' = IF IsCritical(s) THEN fix_calls \cup {s.soa_drift}
                                  ELSE fix_calls
                  /\ bind_serial' = IF fixed THEN [bind_serial EXCEPT ![d] = <<serial>>]
                                    ELSE bind_serial
                  /\ results' =
                        IF fixed
                          THEN Recheck(Count(results, d, s), d,
                                       sync_result(<<serial>>, pdns_serial[d]))
                          ELSE Count(results, d, s)
    /\ UNCHANGED <<now, store, affiliated, pdns_serial, delegated, dbVars, rpc, dryrun, tracking, current_time,
                   max_domains, distribution, removed, saveVars, histVars,
                   spc, sync_status, lockVars, cbVars>>

\* Line 278: db.save_domain_tracking(domain_tracking); the function returns
\* when the save does.
PQSave ==
    /\ rpc = "pq_loop"
    /\ todo = <<>>
    /\ BeginSave(domain_tracking, "pq_return")
    /\ UNCHANGED <<now, store, envVars, dryrun, tracking, pqVars, removed, histVars,
                   auxVars, lockVars, cbVars>>

(***************************************************************************)
(* domains.py: handle_removed_zones                                        *)
(***************************************************************************)
\* Lines 128-139: the inactive domains whose timestamp is more than an hour old.
\* A test that let a domain go at the end of the hour would be IsExpiredAtGrace.
IsExpiredAtGrace(t, d) ==
    /\ strptime_ok(Get(t, d).timestamp)
    /\ now - Strptime(Get(t, d).timestamp) >= Seconds(GRACE_SECONDS)

IsExpired(t, d) ==
    /\ strptime_ok(Get(t, d).timestamp)
    /\ now - Strptime(Get(t, d).timestamp) > Seconds(GRACE_SECONDS)

domains_to_process(st) ==
    SelectSeq(get_domains_by_status(st, "inactive"),
              LAMBDA d : Has(load_domain_tracking(st), d) /\ IsExpired(load_domain_tracking(st), d))

RECURSIVE DelAll(_, _)
DelAll(t, ds) == IF ds = <<>> THEN t ELSE DelAll(Del(t, Head(ds)), Tail(ds))

\* A cleanup that did not test dryrun at line 150.
handle_removed_zones_in_any_mode(next) ==
    /\ removed' = domains_to_process(store)
    /\ IF domains_to_process(store) # <<>>
         THEN BeginSave(DelAll(load_domain_tracking(store), domains_to_process(store)), next)
         ELSE rpc' = next /\ UNCHANGED saveVars

\* handle_removed_zones, lines 124-152, up to its save.  In write mode line
\* 144 calls disconnect_zone_from_cpanel (pdns.py lines 87-128) for each
\* domain, which sends its requests with pdns_req directly; its result is not
\* looked at.
handle_removed_zones(next) ==
    /\ removed' = domains_to_process(store)
    /\ IF domains_to_process(store) # <<>> /\ ~dryrun
         THEN BeginSave(DelAll(load_domain_tracking(store), domains_to_process(store)), next)
         ELSE rpc' = next /\ UNCHANGED saveVars

(***************************************************************************)
(* core.py: _process_bulk_domains                                          *)
(***************************************************************************)
\* Lines 342-348: untracked affiliated domains become active, in the set's
\* iteration order.
MarkNew(t, order, stamp) ==
    t \o [i \in 1..Len(order) |-> [domain |-> order[i], status |-> "active", timestamp |-> stamp,
                                   extra |-> <<>>]]

\* A demotion of every tracked domain that is not affiliated, whatever its
\* state, would be MarkRemovedAnyState.
MarkRemovedAnyState(t, aff, stamp) ==
    [i \in 1..Len(t) |->
        IF t[i].domain \notin aff
          THEN [t[i] EXCEPT !.status = "inactive", !.timestamp = stamp]
          ELSE t[i]]

\* Lines 350-358: tracked active domains that are not affiliated become inactive.
MarkRemoved(t, aff, stamp) ==
    [i \in 1..Len(t) |->
        IF t[i].status = "active" /\ t[i].domain \notin aff
          THEN [t[i] EXCEPT !.status = "inactive", !.timestamp = stamp]
          ELSE t[i]]

\* A process starts a bulk run: lines 333-358 and the call at line 361.
BulkStart(dry) ==
    /\ rpc = "idle"
    /\ dryrun' = dry
    /\ \E order \in Orderings(affiliated \ Keys(load_domain_tracking(store))) :
          tracking' = MarkRemoved(MarkNew(load_domain_tracking(store), order, Strftime(now)),
                                  affiliated, Strftime(now))
    /\ max_domains' = BULK_MAX_DOMAINS
    /\ distribution' = BULK_DISTRIBUTION
    /\ rpc' = "pq_start"
    /\ UNCHANGED <<now, store, envVars, domain_tracking, current_time, todo, results,
                   removed, saveVars, histVars, auxVars, lockVars, cbVars>>

\* Line 368: domain_manager.save_tracking(tracking).
BulkSave ==
    /\ rpc = "pq_return"
    /\ BeginSave(tracking, "cleanup")
    /\ UNCHANGED <<now, store, envVars, dryrun, tracking, pqVars, removed, histVars,
                   auxVars, lockVars, cbVars>>

\* Line 371: domain_manager.handle_removed_zones(args.dryrun).
BulkCleanup ==
    /\ rpc = "cleanup"
    /\ handle_removed_zones("done")
    /\ remote_requests' = IF domains_to_process(store) # <<>> /\ ~dryrun
                            THEN remote_requests \cup {Request("deprovision")}
                            ELSE remote_requests
    /\ UNCHANGED <<now, store, envVars, dryrun, tracking, pqVars, histVars, fix_calls, spc,
                   sync_status, lockVars, cbVars>>

(***************************************************************************)
(* core.py: main with --cleanup or --orphans                               *)
(***************************************************************************)
\* main lines 218-220, args.cleanup: handle_removed_zones(args.dryrun) is the
\* whole run.
MainCleanup ==
    /\ rpc = "idle"
    /\ spc = "idle"
    /\ rpc' = "cleanup"
    /\ UNCHANGED <<now, store, envVars, dryrun, tracking, pqVars, removed, saveVars, histVars,
                   auxVars, lockVars, cbVars>>

\* check_authoritative_ns(domain)['verified'], line 315.  A lookup that
\* verified every domain would be verified_always.
verified_always(d) == TRUE

check_authoritative_ns(d) == d \in delegated

\* _process_orphaned_domains, lines 307-321: the map after the loop over the
\* orphan domains of the store.
process_orphaned_domains(st, stamp) ==
    LET orphans == get_domains_by_status(st, "orphan")
        t == load_domain_tracking(st)
    IN  [i \in 1..Len(t) |->
           IF (\E k \in 1..Len(orphans) : orphans[k] = t[i].domain)
                /\ check_authoritative_ns(t[i].domain)
             THEN [t[i] EXCEPT !.status = "active", !.timestamp = stamp]
             ELSE t[i]]

\* main lines 222-223, args.orphans: _process_orphaned_domains, lines 302-325.
\* The map is saved when the store has an orphan domain (line 323), in
\* dry-run as well.
OrphanSweep ==
    /\ rpc = "idle"
    /\ spc = "idle"
    /\ tracking' = process_orphaned_domains(store, Strftime(now))
    /\ IF get_domains_by_status(store, "orphan") # <<>>
         THEN BeginSave(process_orphaned_domains(store, Strftime(now)), "swept")
         ELSE rpc' = "swept" /\ UNCHANGED saveVars
    /\ UNCHANGED <<now, store, envVars, dryrun, pqVars, removed, histVars, auxVars,
                   lockVars, cbVars>>

(***************************************************************************)
(* core.py: _process_single_domain                                         *)
(***************************************************************************)
\* args.domain.
SingleDomain == 1

\* Lines 269-271: the drift is critical.
IsCriticalSingle(s) ==
    s.sync_status # "success" /\ s.soa_drift # <<>> /\ s.soa_drift[1] # 0
      /\ s.soa_drift[1] > MAX_SOA_DRIFT

\* main line 215 with args.domain set, and lines 243-254 for a domain that is
\* not excluded: sys.exit(1) when the NS records are not verified.
SingleStart(verified) ==
    /\ rpc = "idle"
    /\ spc = "idle"
    /\ spc' = IF verified THEN "call_get_zone" ELSE "exit1"
    /\ UNCHANGED <<now, store, envVars, rpc, dryrun, tracking, pqVars, removed, saveVars,
                   histVars, remote_requests, fix_calls, sync_status, lockVars, cbVars>>

\* Line 257: dns_api.get_zone(args.domain) is called.
SingleGetZone ==
    /\ spc = "call_get_zone"
    /\ AdCall("get_zone")
    /\ spc' = "in_get_zone"
    /\ UNCHANGED <<store, envVars, rpc, dryrun, tracking, pqVars, removed, saveVars,
                   histVars, remote_requests, fix_calls, sync_status>>

\* get_zone has returned or raised: lines 260-261 for the not-found result,
\* line 268 for a zone, lines 297-299 for an exception.
SingleZone ==
    /\ spc = "in_get_zone"
    /\ ad_pc = "idle"
    /\ spc' = IF ad_outcome = "not_found" THEN "call_create_zone"
              ELSE IF ad_outcome = "zone" THEN "check"
              ELSE "exit1"
    /\ UNCHANGED <<now, store, envVars, rpc, dryrun, tracking, pqVars, removed, saveVars,
                   histVars, remote_requests, fix_calls, sync_status, lockVars, cbVars>>

\* Line 261: dns_api.create_zone(args.domain, args.dryrun, verbose=True).
SingleCreateZone ==
    /\ spc = "call_create_zone"
    /\ AdCall("create_zone")
    /\ spc' = "in_create_zone"
    /\ UNCHANGED <<store, envVars, rpc, dryrun, tracking, pqVars, removed, saveVars,
                   histVars, remote_requests, fix_calls, sync_status>>

\* create_zone has returned (its result is not looked at) or raised.
SingleCreated ==
    /\ spc = "in_create_zone"
    /\ ad_pc = "idle"
    /\ spc' = IF ad_outcome \in {"true", "false"} THEN "done" ELSE "exit1"
    /\ UNCHANGED <<now, store, envVars, rpc, dryrun, tracking, pqVars, removed, saveVars,
                   histVars, remote_requests, fix_calls, sync_status, lockVars, cbVars>>

\* Line 268: sync_status = check_zone_sync(args.domain).
SingleCheck ==
    /\ spc = "check"
    /\ sync_status' = check_zone_sync(SingleDomain)
    /\ remote_requests' = remote_requests \cup SoaQuery(SingleDomain)
    /\ spc' = "checked"
    /\ UNCHANGED <<now, store, envVars, rpc, dryrun, tracking, pqVars, removed, saveVars,
                   histVars, fix_calls, lockVars, cbVars>>

\* Lines 269-288: fix_soa_drift is called when the drift is critical.
\* fix_ok: whether it finds the zone file and the SOA record and whmapi1
\* succeeds.
SingleFix(fix_ok) ==
    /\ spc = "checked"
    /\ IsCriticalSingle(sync_status) \/ fix_ok
    /\ fix_calls' = IF IsCriticalSingle(sync_status)
                      THEN fix_calls \cup {sync_status.soa_drift}
                      ELSE fix_calls
    /\ LET f == fix_soa_drift(SingleDomain, sync_status.bind_serial, sync_status.pdns_serial,
                              dryrun, fix_ok)
       IN  bind_serial' =
             IF IsCriticalSingle(sync_status) /\ f.success /\ "edit_zone_record" \in f.commands
               THEN [bind_serial EXCEPT ![SingleDomain] = f.to]
               ELSE bind_serial
    /\ spc' = "save"
    /\ UNCHANGED <<now, store, affiliated, pdns_serial, delegated, dbVars, rpc, dryrun, tracking, pqVars, removed,
                   saveVars, histVars, remote_requests, sync_status, lockVars, cbVars>>

\* Lines 290-295: the tracking map is loaded, the domain's record is set to
\* active with the current time, and the map is saved.
SingleSave ==
    /\ spc = "save"
    /\ BeginSave(Put(load_domain_tracking(store),
                     [domain |-> SingleDomain, status |-> "active", timestamp |-> Strftime(now),
                      extra |-> <<>>]),
                 "done")
    /\ spc' = "saved"
    /\ UNCHANGED <<now, store, envVars, dryrun, tracking, pqVars, removed, histVars,
                   remote_requests, fix_calls, sync_status, lockVars, cbVars>>

\* What a process starts with: nothing in memory.
ResetLocals ==
    /\ dryrun' = TRUE
    /\ tracking' = <<>>
    /\ domain_tracking' = <<>>
    /\ current_time' = 0
    /\ max_domains' = BULK_MAX_DOMAINS
    /\ distribution' = BULK_DISTRIBUTION
    /\ todo' = <<>>
    /\ results' = EmptyResults
    /\ removed' = <<>>
    /\ save_map' = <<>>
    /\ save_i' = 0
    /\ txn' = <<>>
    /\ after_save' = "idle"
    /\ run_start_store' = store'
    /\ commits' = 0
    /\ db_errors' = 0
    /\ remote_requests' = {}
    /\ fix_calls' = {}

\* The process exits; its memory is gone and the next process can start.
RunExit ==
    /\ rpc = "done"
    /\ rpc' = "idle"
    /\ UNCHANGED <<now, store, envVars, spc, sync_status, lockVars, cbVars>>
    /\ ResetLocals

\* The process is killed in the middle of its run.
Kill ==
    /\ rpc \in {"pq_start", "pq_loop", "pq_return", "cleanup", "save"}
    /\ rpc' = "idle"
    /\ UNCHANGED <<now, store, envVars, spc, sync_status, lockVars, cbVars>>
    /\ ResetLocals

\* locks.py signal_handler, lines 150-155, run by SIGTERM or SIGINT while the
\* loop of process_domain_queue is inside a domain: after check_zone_sync
\* (line 229) and before fix_soa_drift (line 255), or, with corrected, after
\* fix_soa_drift has written the serial and before the re-check (line 267).
\* The handler releases the lock and raises SystemExit where the loop stands;
\* no handler of domains.py or zones.py catches it.
SignalInDomain(fix_ok, corrected) ==
    /\ rpc = "pq_loop"
    /\ todo # <<>>
    /\ results.total_processed < max_domains
    /\ LET d == Head(todo).domain
           s == check_zone_sync(d)
           f == fix_soa_drift(d, s.bind_serial, s.pdns_serial, dryrun, fix_ok)
       IN  IF corrected
             THEN /\ IsCritical(s)
                  /\ f.success
                  /\ "edit_zone_record" \in f.commands
                  /\ f.to[1] <= MaxSerial
                  /\ bind_serial' = [bind_serial EXCEPT ![d] = f.to]
             ELSE /\ fix_ok
                  /\ UNCHANGED bind_serial
    /\ rpc' = "idle"
    /\ UNCHANGED <<now, store, affiliated, pdns_serial, delegated, dbVars, spc, sync_status,
                   lockVars, cbVars>>
    /\ ResetLocals

TickCoarse == Seconds(GRACE_SECONDS)
\* Sub-second clock steps after each whole grace period: less than a second.
MaxFineTicks == SubSecond - 1

\* The clock advances by a grace period, or by one sub-second step.  The run
\* reads the clock at its start (lines 346, 357), in process_domain_queue line
\* 178 and in handle_removed_zones line 136; time that passes elsewhere passes
\* before the next of these.
TickRun ==
    /\ rpc \in {"idle", "pq_start", "cleanup"}
    /\ \/ /\ now + TickCoarse <= MaxRunTicks * TickCoarse + MaxFineTicks
          /\ now' = (now \div TickCoarse) * TickCoarse + TickCoarse
       \/ /\ now % TickCoarse < MaxFineTicks
          /\ now' = now + 1
    /\ UNCHANGED <<lockVars, cbVars, runVars>>

\* The serials the two authorities answer with: in sync, small drift, critical
\* drift either way, one serial missing.
SerialScenarios ==
    << [b |-> <<100>>, p |-> <<100>>], [b |-> <<100>>, p |-> <<103>>],
       [b |-> <<100>>, p |-> <<110>>], [b |-> <<110>>, p |-> <<100>>],
       [b |-> <<>>, p |-> <<100>>],    [b |-> <<100>>, p |-> <<>>] >>

Scenario(d, k) == SerialScenarios[((d + k) % Len(SerialScenarios)) + 1]

InitSerials ==
    \E k \in {0, 2, 4} :
        /\ bind_serial = [d \in AllDomains |-> Scenario(d, k).b]
        /\ pdns_serial = [d \in AllDomains |-> Scenario(d, k).p]

\* The rows of domains 1..n, in domain order, with the given statuses and
\* timestamps (whole seconds on the clock of the model).
RowsAt(n, status_of, ts_of) ==
    LET RECURSIVE Build(_)
        Build(d) == IF d > n THEN <<>>
                    ELSE (IF status_of[d] # "absent"
                            THEN << [domain |-> d, status |-> status_of[d],
                                     timestamp |-> Strftime(Seconds(ts_of[d])),
                                     metadata |-> NULL] >>
                            ELSE <<>>) \o Build(d + 1)
    IN  Build(1)

Rows(status_of) == RowsAt(NumDomains, status_of, [d \in Domains |-> 0])

\* No check has been made: `sync_status' is not bound.
NoStatus ==
    [sync_status |-> "none", soa_drift |-> <<>>, bind_serial |-> <<>>, pdns_serial |-> <<>>,
     error_message |-> ""]

InitAuxVars ==
    /\ remote_requests = {}
    /\ fix_calls = {}
    /\ spc = "idle"
    /\ sync_status = NoStatus

InitRunLocals ==
    /\ rpc = "idle"
    /\ dryrun = TRUE
    /\ tracking = <<>>
    /\ domain_tracking = <<>>
    /\ current_time = 0
    /\ max_domains = BULK_MAX_DOMAINS
    /\ distribution = BULK_DISTRIBUTION
    /\ todo = <<>>
    /\ results = EmptyResults
    /\ removed = <<>>
    /\ save_map = <<>>
    /\ save_i = 0
    /\ txn = <<>>
    /\ after_save = "idle"
    /\ run_start_store = store
    /\ commits = 0
    /\ db_errors = 0
    /\ InitAuxVars

InitRunVars ==
    /\ InitDbVars
    /\ store = <<>>
    /\ affiliated = {}
    /\ bind_serial = [d \in AllDomains |-> <<100>>]
    /\ pdns_serial = [d \in AllDomains |-> <<100>>]
    /\ InitRunLocals

(***************************************************************************)
(* Specifications                                                          *)
(***************************************************************************)
InitLock == now = 0 /\ InitLockVars /\ InitCbVars /\ InitAdVars /\ InitRunVars

NextLock ==
    \/ \E p \in Procs : MainAdapters(p)
    \/ \E p \in Procs : AcquireCheck(p)
    \/ \E p \in Procs : AcquireRead(p)
    \/ \E p \in Procs : AcquireOpen(p)
    \/ \E p \in Procs : AcquireWrite(p)
    \/ \E p \in Procs : AcquireFlock(p)
    \/ \E p \in Procs : RunEnds(p)
    \/ \E p \in Procs : ReleaseUnlock(p)
    \/ \E p \in Procs : ReleaseRead(p)
    \/ \E p \in Procs : ReleaseUnlink(p)
    \/ \E p \in Procs : Signal(p)
    \/ \E p \in Procs : Crash(p)
    \/ TickLock

SpecLock == InitLock /\ [][NextLock]_vars

InitCB == now = 0 /\ InitLockVars /\ InitCbVars /\ InitAdVars /\ InitRunVars

NextCB ==
    \/ cb_enter /\ UNCHANGED adVars
    \/ \E ok \in BOOLEAN : cb_exit(ok) /\ UNCHANGED adVars
    \/ CbTick

SpecCB == InitCB /\ [][NextCB]_vars

\* One PowerDnsApiAdapter and its callers: any sequence of calls of its four
\* methods, one at a time, with any answer of PowerDNS to each attempt.
InitAdapter == now = 0 /\ InitLockVars /\ InitCbVars /\ InitAdVars /\ InitRunVars

AdapterCall ==
    /\ failed_calls < MaxFailedCalls
    /\ op_calls < MaxCalls
    /\ \E op \in Operations : AdCall(op)
    /\ UNCHANGED runVars

NextAdapter ==
    \/ AdapterCall
    \/ AdEnter
    \/ \E resp \in Responses : AdRespond(resp)
    \/ CbTick

SpecAdapter == InitAdapter /\ [][NextAdapter]_vars

\* One run of main over one tracked or untracked domain, in single-domain
\* mode or as a bulk run, for every pair of serials of a range (or none) that
\* BIND and PowerDNS can answer for the domain.
SerialSpan == 7

\* One run of main in bulk, cleanup or orphan mode, over stores that hold rows
\* of every state; the rows of the first domain carry extension fields, and an
\* inactive row may have a timestamp that does not parse.  The clock is read
\* around the end of the grace period of the rows.
GraceInstants ==
    {Seconds(GRACE_SECONDS - 60), Seconds(GRACE_SECONDS), Seconds(GRACE_SECONDS) + 1,
     Seconds(GRACE_SECONDS + 60)}

ModeRow(d, kind) ==
    [domain |-> d,
     status |-> IF kind = "migrated" THEN "inactive" ELSE kind,
     timestamp |-> IF kind = "migrated" THEN BadTimestamp ELSE Strftime(0),
     metadata |-> IF d = 1 THEN json_dumps(<< <<"owner", [type |-> "str", val |-> "dns"]>> >>)
                  ELSE NULL]

ModeStores ==
    {LET present == SelectSeq([d \in Domains |-> d], LAMBDA d : kind_of[d] # "absent")
     IN  [i \in 1..Len(present) |-> ModeRow(present[i], kind_of[present[i]])] :
        kind_of \in [Domains -> {"absent", "active", "inactive", "orphan", "migrated"}]}

InitModes ==
    /\ InitLockVars
    /\ InitCbVars
    /\ InitAdVars
    /\ store \in ModeStores
    /\ \/ now = Seconds(GRACE_SECONDS + 60) /\ affiliated \in SUBSET Domains /\ delegated = {}
       \/ now = Seconds(GRACE_SECONDS + 60) /\ affiliated = Domains /\ delegated \in SUBSET Domains
       \/ now \in GraceInstants /\ affiliated = Domains /\ delegated = {}
    /\ bind_serial = [d \in AllDomains |-> <<100>>]
    /\ pdns_serial = [d \in AllDomains |-> <<100>>]
    /\ db_map = <<>>
    /\ db_result = NoCall
    /\ rpc = "idle"
    /\ dryrun \in BOOLEAN
    /\ tracking = <<>>
    /\ domain_tracking = <<>>
    /\ current_time = 0
    /\ max_domains = BULK_MAX_DOMAINS
    /\ distribution = BULK_DISTRIBUTION
    /\ todo = <<>>
    /\ results = EmptyResults
    /\ removed = <<>>
    /\ save_map = <<>>
    /\ save_i = 0
    /\ txn = <<>>
    /\ after_save = "idle"
    /\ run_start_store = store
    /\ commits = 0
    /\ db_errors = 0
    /\ InitAuxVars

NextModes ==
    \/ BulkStart(dryrun)
    \/ PQLoad
    \/ \E fix_ok \in BOOLEAN : PQStep(fix_ok)
    \/ PQSave
    \/ BulkSave
    \/ MainCleanup
    \/ BulkCleanup
    \/ OrphanSweep
    \/ SaveRow
    \/ SaveCommit
    \/ SaveError

SpecModes == InitModes /\ [][NextModes]_vars

\* The DatabaseManager calls on their own: a store left by earlier runs, a map
\* to save, and calls in any order, each of which may meet an sqlite3.Error;
\* a caller may also save the map its last load returned.
ExtraInputs ==
    { <<>>,
      << <<"owner", [type |-> "str", val |-> "ops"]>>, <<"ticket", [type |-> "int", val |-> "7"]>> >>,
      << <<"ticket", [type |-> "none", val |-> "None"]>>, <<"owner", [type |-> "str", val |-> "ops"]>> >> }

ItemInputs(d) ==
    {[domain |-> d, status |-> "orphan", timestamp |-> Strftime(0), extra |-> <<>>]}
      \cup {[domain |-> d, status |-> "active", timestamp |-> Strftime(Seconds(1)), extra |-> e] :
                e \in ExtraInputs}

MapInputs ==
    UNION { {[i \in 1..Len(order) |-> pick[order[i]]] :
                order \in Orderings(S),
                pick \in {f \in [S -> UNION {ItemInputs(d) : d \in S}] :
                             \A d \in S : f[d].domain = d}}
            : S \in SUBSET Domains }

StoreInputs ==
    { <<>>,
      [d \in Domains |-> [domain |-> d, status |-> "inactive", timestamp |-> Strftime(0),
                          metadata |-> json_dumps(<< <<"owner", [type |-> "str", val |-> "dns"]>> >>)]] }

InitStore ==
    /\ now = 0
    /\ InitLockVars
    /\ InitCbVars
    /\ InitAdVars
    /\ store \in StoreInputs
    /\ affiliated = {}
    /\ bind_serial = [d \in AllDomains |-> <<100>>]
    /\ pdns_serial = [d \in AllDomains |-> <<100>>]
    /\ delegated = {}
    /\ db_map \in MapInputs
    /\ db_result = NoCall
    /\ InitRunLocals

NextStore ==
    \/ \E err, remove_ok, create_ok \in BOOLEAN : DbLoad(err, remove_ok, create_ok)
    \/ \E status \in {"active", "inactive"} :
       \E err, remove_ok, create_ok \in BOOLEAN : DbFilter(status, err, remove_ok, create_ok)
    \/ \E err, remove_ok, create_ok \in BOOLEAN : DbSave(db_map, err, remove_ok, create_ok)
    \/ /\ db_result.call = "load"
       /\ db_result.kind = "map"
       /\ \E err, remove_ok, create_ok \in BOOLEAN :
             DbSave(db_result.value, err, remove_ok, create_ok)

SpecStore == InitStore /\ [][NextStore]_vars

SerialInputs == {<<>>} \cup {<<n>> : n \in (MaxSerial - 1 - SerialSpan)..(MaxSerial - 1)}

InitRun ==
    /\ InitDbVars
    /\ now = Seconds(2)
    /\ InitLockVars
    /\ InitCbVars
    /\ InitAdVars
    /\ \E status \in {"absent", "active"} :
          store = RowsAt(SingleDomain, [d \in {SingleDomain} |-> status],
                         [d \in {SingleDomain} |-> 0])
    /\ affiliated = {SingleDomain}
    /\ \E b \in SerialInputs, p \in SerialInputs :
          /\ bind_serial = [d \in AllDomains |-> IF d = SingleDomain THEN b ELSE <<MaxSerial>>]
          /\ pdns_serial = [d \in AllDomains |-> IF d = SingleDomain THEN p ELSE <<MaxSerial>>]
    /\ rpc = "idle"
    /\ dryrun \in BOOLEAN
    /\ tracking = <<>>
    /\ domain_tracking = <<>>
    /\ current_time = 0
    /\ max_domains = BULK_MAX_DOMAINS
    /\ distribution = BULK_DISTRIBUTION
    /\ todo = <<>>
    /\ results = EmptyResults
    /\ removed = <<>>
    /\ save_map = <<>>
    /\ save_i = 0
    /\ txn = <<>>
    /\ after_save = "idle"
    /\ run_start_store = store
    /\ commits = 0
    /\ db_errors = 0
    /\ InitAuxVars

NextRun ==
    \/ \E verified \in BOOLEAN : SingleStart(verified)
    \/ SingleGetZone
    \/ AdEnter
    \/ \E resp \in Responses : AdRespond(resp)
    \/ SingleZone
    \/ SingleCreateZone
    \/ SingleCreated
    \/ SingleCheck
    \/ \E fix_ok \in BOOLEAN : SingleFix(fix_ok)
    \/ SingleSave
    \/ spc = "idle" /\ BulkStart(dryrun)
    \/ PQLoad
    \/ \E fix_ok \in BOOLEAN : PQStep(fix_ok)
    \/ PQSave
    \/ BulkSave
    \/ BulkCleanup
    \/ SaveRow
    \/ SaveCommit
    \/ SaveError

SpecRun == InitRun /\ [][NextRun]_vars

\* The store a run can find: empty, or rows migrated from the zone files
\* (scripts/migrate_data.py) before the clock of the model starts.
Init ==
    /\ InitDbVars
    /\ now = 0
    /\ InitLockVars
    /\ InitCbVars
    /\ InitAdVars
    /\ \E status_of \in [Domains -> {"absent", "active", "orphan"}] : store = Rows(status_of)
    /\ affiliated \in SUBSET Domains
    /\ InitSerials
    /\ InitRunLocals

Next ==
    \/ \E dry \in BOOLEAN : BulkStart(dry)
    \/ PQLoad
    \/ \E fix_ok \in BOOLEAN : PQStep(fix_ok)
    \/ PQSave
    \/ BulkSave
    \/ BulkCleanup
    \/ SaveRow
    \/ SaveCommit
    \/ SaveError
    \/ RunExit
    \/ Kill
    \/ TickRun

Spec == Init /\ [][Next]_vars

\* process_domain_queue on its own, as process_all_domains calls it: any
\* store the database can hold, any max_domains and distribution.
InitQueue ==
    /\ InitDbVars
    /\ now = Seconds(2)
    /\ InitLockVars
    /\ InitCbVars
    /\ InitAdVars
    /\ \E status_of \in [Domains -> {"absent", "active", "inactive", "orphan"}] :
       \E ts_of \in [Domains -> {0, 1}] :
          /\ \A d \in Domains : status_of[d] \in {"absent", "inactive"} => ts_of[d] = 0
          /\ store = RowsAt(NumDomains, status_of, ts_of)
    /\ affiliated = Domains
    /\ InitSerials
    /\ rpc = "pq_start"
    /\ dryrun \in BOOLEAN
    /\ max_domains \in 0..NumDomains
    /\ distribution \in {<<NumDomains, b, c>> : b \in 0..NumDomains, c \in 0..NumDomains}
    /\ tracking = <<>>
    /\ domain_tracking = <<>>
    /\ current_time = 0
    /\ todo = <<>>
    /\ results = EmptyResults
    /\ removed = <<>>
    /\ save_map = <<>>
    /\ save_i = 0
    /\ txn = <<>>
    /\ after_save = "idle"
    /\ run_start_store = store
    /\ commits = 0
    /\ db_errors = 0
    /\ InitAuxVars

NextQueue ==
    \/ PQLoad
    \/ \E fix_ok \in BOOLEAN : PQStep(fix_ok)
    \/ PQSave
    \/ SaveRow
    \/ SaveCommit
    \/ SaveError
    \/ Kill

SpecQueue == InitQueue /\ [][NextQueue]_vars

\* process_domain_queue with the signals the process handles: a SIGTERM or
\* SIGINT can arrive between two domains (Kill at the loop) or inside one.
NextSignal ==
    \/ PQLoad
    \/ \E fix_ok \in BOOLEAN : PQStep(fix_ok)
    \/ PQSave
    \/ SaveRow
    \/ SaveCommit
    \/ SaveError
    \/ Kill
    \/ \E fix_ok, corrected \in BOOLEAN : SignalInDomain(fix_ok, corrected)

SpecSignal == InitQueue /\ [][NextSignal]_vars

\* Repeated bulk runs over one more active domain than the Active queue's
\* quota, all affiliated and in sync, tracked since a grace period ago,
\* any of them first; no run is killed and no save fails.
InitFair ==
    /\ InitDbVars
    /\ now = TickCoarse
    /\ InitLockVars
    /\ InitCbVars
    /\ InitAdVars
    /\ \E first \in FairDomains :
          store = [i \in FairDomains |->
                     [domain |-> ((first + i - 2) % Cardinality(FairDomains)) + 1,
                      status |-> "active", timestamp |-> Strftime(0), metadata |-> NULL]]
    /\ affiliated = FairDomains
    /\ bind_serial = [d \in AllDomains |-> <<100>>]
    /\ pdns_serial = [d \in AllDomains |-> <<100>>]
    /\ InitRunLocals

RunStep ==
    \/ \E dry \in BOOLEAN : BulkStart(dry)
    \/ PQLoad
    \/ \E fix_ok \in BOOLEAN : PQStep(fix_ok)
    \/ PQSave
    \/ BulkSave
    \/ BulkCleanup
    \/ SaveRow
    \/ SaveCommit
    \/ RunExit

NextFair ==
    \/ RunStep
    \/ TickRun

\* The bulk run is started again and again (cron), and a started run goes on.
SpecFair == InitFair /\ [][NextFair]_vars /\ WF_vars(RunStep)

(***************************************************************************)
(* Claims                                                                  *)
(***************************************************************************)
\* C1: at most one process at a time is between a successful acquire_lock and
\* the end of its run.
C1_MutualExclusion == Cardinality({p \in Procs : lpc[p] = "run"}) <= 1

\* C2 as stated: a save_domain_tracking that is interrupted or fails part-way
\* leaves the store in its pre-save state or in the complete new state.
C2_SaveAllOrNothing ==
    [][rpc = "save" => (store' = store \/ store' = Upsert(store, save_map))]_vars

\* C2, amended: a save_domain_tracking that is interrupted or fails part-way
\* leaves the store in its pre-save state, in the complete new state, or (when
\* the failure is a store error) empty; never with part of the map's records.
C2_SaveAllOrNothingOrEmpty ==
    [][rpc = "save" => (\/ store' = store
                        \/ store' = Upsert(store, save_map)
                        \/ store' = recreate_database)]_vars

\* C2 witness: a save of several records over a non-empty store has failed
\* after some but not all of its upserts.
C2_Witness ==
    /\ rpc # "save"
    /\ db_errors = 1
    /\ commits = 0
    /\ 0 < save_i
    /\ save_i < Len(save_map)
    /\ run_start_store # <<>>
    /\ store = <<>>

\* C3: a bulk run commits its tracking changes once, at its end; until the
\* run's own save_tracking commits, the store is as the previous run left it.
C3_CommitOnceAtEnd ==
    (/\ db_errors = 0
     /\ \/ rpc \in {"pq_start", "pq_loop", "pq_return"}
        \/ rpc = "save" /\ after_save \in {"pq_return", "cleanup"})
    => store = run_start_store

\* C4: under repeated bulk runs every domain waiting in the Active queue is
\* eventually processed.
C4_NoStarvation ==
    \A d \in FairDomains :
        <>(\E i \in 1..Len(results.domains) : results.domains[i].domain = d)

\* C5: when a bulk run has ended with every save successful, each domain the
\* scheduler selected has the run's timestamp as its lastTransition.
C5_SelectedStamped ==
    (rpc = "done" /\ db_errors = 0)
    => \A i \in 1..Len(results.domains) :
          /\ Has(store, results.domains[i].domain)
          /\ Get(store, results.domains[i].domain).timestamp = current_time

\* C6: when a run that is not a dry run has cleaned up its expired inactive
\* domains and every save succeeded, none of them has a tracking record left.
C6_CleanupDeletes ==
    (rpc = "done" /\ ~dryrun /\ db_errors = 0)
    => \A i \in 1..Len(removed) : ~Has(store, removed[i])

\* C7: one scheduling pass processes at most quota_i domains of queue i and at
\* most max_domains in all, existing domains before orphans and no inactive
\* one, namely the batch the selection function gives for the stored queues;
\* with ten domains in each queue, quotas (4, 4, 2) and max_domains 10 that
\* batch is the first four New, four Active and two Orphan domains.
C7_BoundedBatch ==
    LET status(e) == Get(domain_tracking, e.domain).status
        picked(st) == Len(SelectSeq(results.domains, LAMBDA e : status(e) = st))
        t == run_start_store
        batch == SelectBatch(SortByTimestamp(t, new_domains(t)),
                             SortByTimestamp(t, existing_domains(t)),
                             SortByTimestamp(t, orphan_domains(t)),
                             distribution, max_domains)
        ten(k) == [i \in 1..10 |-> k + i]
    IN  /\ rpc \in {"pq_loop", "save", "pq_return"} =>
            /\ results.total_processed = Len(results.domains)
            /\ results.total_processed <= max_domains
            /\ picked("active") <= distribution[2]
            /\ picked("orphan") <= distribution[3]
            /\ picked("inactive") = 0
            /\ \A i, j \in 1..Len(results.domains) :
                  i < j => ~(status(results.domains[i]) = "orphan"
                             /\ status(results.domains[j]) = "active")
        /\ rpc \in {"save", "pq_return"} =>
            /\ Len(results.domains) = Len(batch)
            /\ \A i \in 1..Len(batch) : results.domains[i].domain = batch[i].domain
        /\ SelectBatch(ten(0), ten(10), ten(20), BULK_DISTRIBUTION, BULK_MAX_DOMAINS)
             = Tag("new", <<1, 2, 3, 4>>) \o Tag("existing", <<11, 12, 13, 14>>)
                 \o Tag("orphan", <<21, 22>>)

\* C7 witness: the pass has returned having processed exactly the quota of an
\* Active queue that held more, and max_domains in all.
C7_Witness ==
    /\ rpc = "pq_return"
    /\ distribution[2] >= 1
    /\ Len(existing_domains(run_start_store)) > distribution[2]
    /\ Len(SelectSeq(results.domains,
                     LAMBDA e : Get(domain_tracking, e.domain).status = "active"))
         = distribution[2]
    /\ results.total_processed = max_domains

\* C11: the breaker counts at most one failure per adapter call that failed
\* (the call in progress included), and the circuit is open only when at
\* least failure_threshold calls in a row have failed.
C11_OneFailurePerCall ==
    LET in_progress == IF ad_pc = "idle" THEN 0 ELSE 1
    IN  /\ failure_count <= failed_calls + in_progress
        /\ cb_state = "open" => failed_calls + in_progress >= failure_threshold

\* C12: an attempt that the open circuit rejects ends the call at once: the
\* caller gets the circuit-open error, and the wrapper neither retries nor
\* sleeps.
C12_FailFast ==
    [][(ad_pc = "try" /\ cb_result' = "rejected" /\ retry_count' = retry_count + 1)
         => (ad_pc' = "idle" /\ ad_outcome' = "circuit_open" /\ backoffs' = backoffs)]_vars

\* C13: every request the run sends to PowerDNS is sent inside the with-block
\* of the circuit breaker (where an open circuit would have rejected it).
C13_AllThroughBarrier == \A r \in remote_requests : r.guarded

\* C14: an attempt that PowerDNS answered with a 5xx or not at all is
\* recorded by the breaker as a failure, and is retried or raised to the
\* caller.
C14_TransientIsFailure ==
    last_response \in Transient =>
        /\ cb_result = "failure"
        /\ ad_pc = "try" \/ ad_outcome = "exception"

\* C15: a 404 answer to get_zone ends the call at once with the not-found
\* result, the breaker records the attempt as a success, and single-domain
\* processing goes on to create the zone.
C15_NotFoundRoutesToCreate ==
    /\ [](last_response = "not_found" /\ ad_op = "get_zone"
            => /\ ad_pc = "idle"
               /\ ad_outcome = "not_found"
               /\ cb_result = "success"
               /\ failure_count = 0)
    /\ [][(spc = "in_get_zone" /\ ad_outcome = "not_found" /\ spc' # spc)
            => spc' = "call_create_zone"]_vars

C15_Witness ==
    spc = "call_create_zone" /\ last_response = "not_found" /\ ad_op = "get_zone"

\* C16: a process that acquired the lock and has exited holds no flock and
\* has left no lock file that records its pid.
C16_ReleasedOnExit ==
    \A p \in Procs :
        lpc[p] = "exited" =>
            /\ \A i \in Inodes : inodes[i].flock # p
            /\ ~(/\ lock_path # NoFile
                 /\ LockData(lock_path) # <<>>
                 /\ LockData(lock_path)[1].pid = p)

\* C17: a process that has not acquired the lock, or has failed to, has not
\* opened the tracking store.
C17_NoStoreBeforeLock ==
    \A p \in Procs :
        lpc[p] \in {"main", "start", "read", "open", "write", "flock", "failed"}
            => ~db_opened[p]

\* C18: fix_soa_drift is called, by the scheduler or by single-domain
\* processing, only for a drift that is defined and above MAX_SOA_DRIFT.
C18_FixOnlyWhenCritical ==
    \A c \in fix_calls : c # <<>> /\ c[1] > MAX_SOA_DRIFT

C18_Witness ==
    /\ spc = "save"
    /\ fix_calls = {<<MAX_SOA_DRIFT + 1>>}
    /\ dryrun

\* C19: the new serial is max(a, b) + 1 whichever way round the serials are
\* given, and a step that changes the BIND serial of a domain sets it to that
\* value of the two serials before the step, above both of them.
C19_NewSerialAboveBoth ==
    /\ [](\A d \in AllDomains :
            bind_serial[d] # <<>> /\ pdns_serial[d] # <<>> =>
              LET a == bind_serial[d][1]
                  b == pdns_serial[d][1]
              IN  /\ new_serial(a, b) = (IF a >= b THEN a ELSE b) + 1
                  /\ new_serial(a, b) = new_serial(b, a))
    /\ [][\A d \in AllDomains :
            bind_serial'[d] # bind_serial[d] =>
              LET a == bind_serial[d][1]
                  b == pdns_serial[d][1]
                  n == bind_serial'[d][1]
              IN  /\ n = (IF a >= b THEN a ELSE b) + 1
                  /\ n > a
                  /\ n > b]_vars

C19_Witness ==
    /\ spc = "save"
    /\ bind_serial[SingleDomain] # sync_status.bind_serial
    /\ sync_status.pdns_serial[1] > sync_status.bind_serial[1]

\* C20: when both serials are obtained the drift of check_zone_sync is their
\* absolute difference, the same for both orders of the pair; the outcome is
\* success iff the drift is 0, warning iff it is positive and at most
\* MAX_SOA_DRIFT, error iff it is above; the result carries both serials,
\* and it is what single-domain processing holds after its check.
C20_DriftOutcome ==
    \A d \in AllDomains :
        bind_serial[d] # <<>> /\ pdns_serial[d] # <<>> =>
          LET a == bind_serial[d][1]
              b == pdns_serial[d][1]
              diff == IF a >= b THEN a - b ELSE b - a
              s == sync_result(<<a>>, <<b>>)
              t == sync_result(<<b>>, <<a>>)
          IN  /\ s.soa_drift = <<diff>>
              /\ t.soa_drift = s.soa_drift
              /\ t.sync_status = s.sync_status
              /\ s.sync_status \in {"success", "warning", "error"}
              /\ s.sync_status = "success" <=> diff = 0
              /\ s.sync_status = "warning" <=> (0 < diff /\ diff <= MAX_SOA_DRIFT)
              /\ s.sync_status = "error" <=> diff > MAX_SOA_DRIFT
              /\ s.bind_serial = <<a>> /\ s.pdns_serial = <<b>>
              /\ (d = SingleDomain /\ spc = "checked") => sync_status = s

C20_Witness ==
    /\ spc = "checked"
    /\ sync_status.sync_status = "warning"
    /\ sync_status.soa_drift = <<MAX_SOA_DRIFT>>
    /\ sync_status.bind_serial[1] < sync_status.pdns_serial[1]

\* C21: when a serial is missing or cannot be parsed, check_zone_sync gives
\* the error outcome with a message and no drift, never success or warning;
\* that is the result single-domain processing then holds.
C21_NoSerialIsError ==
    /\ \A x \in SerialInputs \cup {Unparsable} :
         \A pair \in {<<Unparsable, x>>, <<x, Unparsable>>, <<x, <<>> >>, << <<>>, x>>} :
            LET s == sync_result(pair[1], pair[2])
            IN  /\ calculate_soa_drift(pair[1], pair[2]) = <<>>
                /\ s.sync_status = "error"
                /\ s.error_message # ""
                /\ s.soa_drift = <<>>
    /\ \A d \in AllDomains :
         (bind_serial[d] = <<>> \/ pdns_serial[d] = <<>>) =>
            /\ check_zone_sync(d).sync_status = "error"
            /\ check_zone_sync(d).error_message # ""
            /\ check_zone_sync(d).soa_drift = <<>>
            /\ (d = SingleDomain /\ spc = "checked") => sync_status = check_zone_sync(d)

C21_Witness ==
    /\ spc = "checked"
    /\ bind_serial[SingleDomain] # <<>>
    /\ pdns_serial[SingleDomain] = <<>>
    /\ sync_status.sync_status = "error"

\* C22: on inputs both modes succeed on, the dry-run corrector reports the
\* same from and to serials and builds the same SOA record as the write-mode
\* corrector, with only the framing of the message different, and runs no
\* whmapi1 command; no step of a dry-run changes a BIND serial.
C22_DryRunParity ==
    /\ [](\A d \in AllDomains :
            bind_serial[d] # <<>> /\ pdns_serial[d] # <<>> =>
              LET dry == fix_soa_drift(d, bind_serial[d], pdns_serial[d], TRUE, TRUE)
                  wet == fix_soa_drift(d, bind_serial[d], pdns_serial[d], FALSE, TRUE)
              IN  /\ dry.success /\ wet.success
                  /\ dry.from = wet.from /\ dry.from = bind_serial[d]
                  /\ dry.to = wet.to
                  /\ dry.record = wet.record
                  /\ dry.framing # wet.framing
                  /\ dry.commands = {}
                  /\ wet.commands = {"edit_zone_record", "reloadzones"})
    /\ [][dryrun => bind_serial' = bind_serial]_vars

C22_Witness ==
    /\ spc = "save"
    /\ dryrun
    /\ fix_calls # {}
    /\ bind_serial[SingleDomain] = sync_status.bind_serial

\* C8: from Closed the circuit opens exactly when failure_threshold failures
\* have been recorded with no success in between, never after fewer, and every
\* successful call resets failure_count to zero.
C8_OpensAtThreshold ==
    /\ [](cb_state = "closed" => fail_streak < failure_threshold)
    /\ [][(cb_state = "closed" /\ cb_state' = "open")
            => fail_streak' = failure_threshold]_vars
    /\ [][(cb_state = "closed" /\ fail_streak' = failure_threshold)
            => cb_state' = "open"]_vars
    /\ [][(cb_pc = "in_call" /\ cb_result' = "success") => failure_count' = 0]_vars

\* C8 witness: the circuit has just opened on the fifth consecutive failure,
\* after an earlier success had reset the counter.
C8_Witness ==
    /\ cb_state = "open"
    /\ fail_streak = failure_threshold
    /\ failure_count = failure_threshold
    /\ op_calls > failure_threshold

\* C9: while Open with the recovery timeout not elapsed, a call attempt is
\* rejected without invoking the operation and changes neither the state, the
\* failure counter nor the last-failure time.
C9_OpenRejects ==
    [][(/\ cb_state = "open"
        /\ now <= last_failure_time[1] + Seconds(recovery_timeout)
        /\ now' = now)
       => (/\ cb_result' = "rejected"
           /\ cb_pc' = "idle"
           /\ op_calls' = op_calls
           /\ cb_state' = "open"
           /\ failure_count' = failure_count
           /\ last_failure_time' = last_failure_time)]_vars

\* C9 witness: a call was rejected exactly recovery_timeout after the last failure.
C9_Witness ==
    /\ cb_state = "open"
    /\ cb_result = "rejected"
    /\ now = last_failure_time[1] + Seconds(recovery_timeout)

\* C10: once more than recovery_timeout has elapsed since the last failure, the
\* next call attempt on an Open circuit moves it to HalfOpen and invokes the
\* operation as the single trial; the trial's success closes the circuit, its
\* failure opens it again with the timeout measured from that failure; a Closed
\* circuit lets calls through; the clock alone never changes the state.
C10_Recovery ==
    /\ [][(/\ cb_state = "open"
           /\ now > last_failure_time[1] + Seconds(recovery_timeout)
           /\ now' = now)
          => (cb_state' = "half-open" /\ cb_pc' = "in_call" /\ op_calls' = op_calls + 1)]_vars
    /\ [](cb_state = "half-open" => cb_pc = "in_call")
    /\ [][(cb_state = "half-open" /\ now' = now)
          => \/ cb_result' = "success" /\ cb_state' = "closed" /\ cb_pc' = "idle"
             \/ /\ cb_result' = "failure" /\ cb_state' = "open" /\ cb_pc' = "idle"
                /\ last_failure_time' = <<now>>]_vars
    /\ [][(cb_state = "closed" /\ cb_pc = "idle" /\ now' = now)
          => (cb_pc' = "in_call" /\ op_calls' = op_calls + 1 /\ cb_state' = "closed")]_vars
    /\ [][(cb_state' = "half-open" /\ cb_state # "half-open")
          => (cb_state = "open" /\ cb_pc = "idle" /\ cb_pc' = "in_call" /\ now' = now)]_vars
    /\ [][now' # now => cb_state' = cb_state]_vars

\* C10 witness: a second trial call is in flight, after the first trial failed
\* and the recovery timeout elapsed again.
C10_Witness ==
    /\ cb_state = "half-open"
    /\ cb_pc = "in_call"
    /\ failure_count > failure_threshold

(***************************************************************************)
(* C23: store errors are self-healing and never fatal.  Whenever            *)
(* load_domain_tracking, get_domains_by_status or save_domain_tracking has *)
(* hit a store error, the caller has received an empty map, an empty list  *)
(* or False and no exception, the store has been removed and reinitialized *)
(* empty, and a load that follows returns an empty map.                    *)
(***************************************************************************)
C23_SelfHealing ==
    db_result.error =>
        /\ db_result.kind # "exception"
        /\ db_result.value = (IF db_result.call = "save" THEN <<FALSE>> ELSE <<>>)
        /\ store = recreate_database
        /\ load_domain_tracking(store) = <<>>

C25_OldestFirst ==
    LET t == load_domain_tracking(run_start_store)
        done == results.domains
        processed == {done[i].domain : i \in 1..Len(done)}
    IN  /\ \A i, j \in 1..Len(done) :
              (i < j /\ Get(t, done[i].domain).status = Get(t, done[j].domain).status)
              => get_timestamp(t, done[i].domain) <= get_timestamp(t, done[j].domain)
        /\ \A d \in processed : \A other \in Keys(t) \ processed :
              Get(t, other).status = Get(t, d).status
              => ~(get_timestamp(t, other) < get_timestamp(t, d))

\* The run has ended; it processed the older of two domains of one queue and
\* left the newer one, which comes first in the store.
C25_Witness ==
    LET t == load_domain_tracking(run_start_store)
        done == results.domains
        processed == {done[i].domain : i \in 1..Len(done)}
    IN  /\ rpc = "pq_return"
        /\ \E d \in processed : \E other \in Keys(t) \ processed :
              /\ Get(t, other).status = Get(t, d).status
              /\ get_timestamp(t, d) < get_timestamp(t, other)
              /\ other < d

(***************************************************************************)
(* C26: the scheduler's queues.  Every domain waiting in the New queue is  *)
(* Active without a timestamp, every one in the Active queue is Active     *)
(* with a timestamp, every one in the Orphan queue is Orphan, and no       *)
(* Inactive domain is in a queue; and a domain that the run promoted from  *)
(* unknown to Active, not reconciled yet, is served from the New queue.    *)
(***************************************************************************)
C26_PromotedServedFromNew ==
    rpc = "pq_loop" =>
       /\ \A i \in 1..Len(todo) :
             /\ Has(domain_tracking, todo[i].domain)
             /\ todo[i].queue = "new" =>
                   /\ Get(domain_tracking, todo[i].domain).status = "active"
                   /\ Get(domain_tracking, todo[i].domain).timestamp = NoTimestamp
             /\ todo[i].queue = "existing" =>
                   /\ Get(domain_tracking, todo[i].domain).status = "active"
                   /\ Get(domain_tracking, todo[i].domain).timestamp # NoTimestamp
             /\ todo[i].queue = "orphan" =>
                   Get(domain_tracking, todo[i].domain).status = "orphan"
       /\ \A d \in Keys(tracking) \ Keys(run_start_store) :
             \/ \E i \in 1..Len(todo) : todo[i].domain = d /\ todo[i].queue = "new"
             \/ \E i \in 1..Len(results.domains) : results.domains[i].domain = d

(***************************************************************************)
(* C27: the promote/demote step of a bulk run.  In the map the run builds, *)
(* and in the store once the run has saved it, an untracked affiliated     *)
(* domain is Active with the run's time, a tracked Active domain that is   *)
(* not affiliated is Inactive with the run's time and its other fields     *)
(* kept, every other tracked record is as it was when the run started, and *)
(* no other domain is tracked.                                             *)
(***************************************************************************)
C27_PromoteDemote ==
    LET old == load_domain_tracking(run_start_store)
        stamp == Strftime(now)
        Expected(t) ==
            \A d \in Domains :
               IF ~Has(old, d)
                 THEN IF d \in affiliated
                        THEN /\ Has(t, d)
                             /\ Get(t, d) = [domain |-> d, status |-> "active",
                                             timestamp |-> stamp, extra |-> <<>>]
                        ELSE ~Has(t, d)
                 ELSE /\ Has(t, d)
                      /\ Get(t, d) =
                            IF Get(old, d).status = "active" /\ d \notin affiliated
                              THEN [Get(old, d) EXCEPT !.status = "inactive", !.timestamp = stamp]
                              ELSE Get(old, d)
    IN  /\ rpc \in {"pq_start", "pq_loop", "pq_return"} => Expected(tracking)
        /\ (rpc = "cleanup" /\ commits = 2 /\ db_errors = 0)
              => Expected(load_domain_tracking(store))

\* A bulk run has saved its map: it promoted an untracked domain and demoted
\* an Active domain that carries an extension field.
C27_Witness ==
    /\ rpc = "cleanup"
    /\ commits = 2
    /\ db_errors = 0
    /\ \E d \in Domains : ~Has(run_start_store, d) /\ Has(store, d)
    /\ \E d \in Domains :
          /\ Has(run_start_store, d)
          /\ Get(run_start_store, d).status = "active"
          /\ Get(run_start_store, d).metadata # NULL
          /\ Get(store, d).status = "inactive"

(***************************************************************************)
(* C28: the grace period.  handle_removed_zones takes a domain for cleanup *)
(* exactly when its record is Inactive, its timestamp parses and more than *)
(* 3600 seconds have passed since; a record 59 or exactly 60 minutes old   *)
(* is left alone and one 61 minutes old is taken.  A domain that is not    *)
(* taken stays in the map the cleanup saves, and when none is taken no     *)
(* request is sent and nothing is saved.                                   *)
(***************************************************************************)
C28_GracePeriod ==
    [][(rpc = "cleanup" /\ rpc' \in {"done", "save"}) =>
         LET t == load_domain_tracking(store)
             taken == {removed'[k] : k \in 1..Len(removed')}
             Eligible(d) ==
                 /\ Has(t, d)
                 /\ Get(t, d).status = "inactive"
                 /\ Get(t, d).timestamp # BadTimestamp
                 /\ now > Seconds(Get(t, d).timestamp) + Seconds(GRACE_SECONDS)
         IN  /\ \A d \in Domains : d \in taken <=> Eligible(d)
             /\ \A d \in taken : Get(t, d).timestamp = Strftime(0) => now > Seconds(60 * 60)
             /\ \A d \in Keys(t) \ taken :
                   (Get(t, d).status = "inactive" /\ Get(t, d).timestamp = Strftime(0))
                   => now < Seconds(61 * 60)
             /\ \A d \in Keys(t) \ taken : rpc' = "save" => Has(save_map', d)
             /\ taken = {} => (rpc' = "done" /\ remote_requests' = remote_requests)
      ]_vars

\* A cleanup just after the hour has taken an Inactive domain and left one
\* whose timestamp does not parse.
C28_Witness ==
    /\ rpc = "done"
    /\ now = Seconds(GRACE_SECONDS) + 1
    /\ Len(removed) = 1
    /\ \E d \in Keys(store) :
          /\ Get(store, d).status = "inactive"
          /\ Get(store, d).timestamp = BadTimestamp
          /\ \A k \in 1..Len(removed) : removed[k] # d

(***************************************************************************)
(* C29: cleanup in dry-run.  Whatever the store holds,                     *)
(* handle_removed_zones(dryrun=True) sends no request to the remote        *)
(* authority, starts no save and leaves every row of the store as it is.   *)
(***************************************************************************)
C29_DryRunCleanup ==
    [][(rpc = "cleanup" /\ dryrun) =>
          /\ store' = store
          /\ remote_requests' = remote_requests
          /\ rpc' = "done"
          /\ UNCHANGED <<save_map, txn, commits>>
      ]_vars

\* A --cleanup run in dry-run has ended; it found a domain past its grace
\* period, and the store is as it was.
C29_Witness ==
    /\ rpc = "done"
    /\ dryrun
    /\ removed # <<>>
    /\ commits = 0
    /\ store = run_start_store
    /\ \A k \in 1..Len(removed) : Has(store, removed[k])
    /\ remote_requests = {}

(***************************************************************************)
(* C30: the orphan sweep.  In the map the sweep builds, and in the store   *)
(* once the sweep has saved it, each Orphan domain whose delegation        *)
(* verifies is Active with the sweep's time and its other fields kept,     *)
(* each Orphan domain whose delegation does not verify has its record      *)
(* unchanged, and so has every domain that was not Orphan; no domain is    *)
(* added or dropped.                                                       *)
(***************************************************************************)
C30_OrphanSweep ==
    LET old == load_domain_tracking(run_start_store)
        Expected(t) ==
            /\ Keys(t) = Keys(old)
            /\ \A d \in Keys(old) :
                  Get(t, d) =
                     IF Get(old, d).status = "orphan" /\ d \in delegated
                       THEN [Get(old, d) EXCEPT !.status = "active", !.timestamp = Strftime(now)]
                       ELSE Get(old, d)
    IN  /\ (rpc = "swept" \/ (rpc = "save" /\ after_save = "swept")) => Expected(tracking)
        /\ (rpc = "swept" /\ db_errors = 0) => Expected(load_domain_tracking(store))

\* A sweep has saved its map: one Orphan domain was verified and is Active,
\* another, with an extension field, was not and is as it was.
C30_Witness ==
    /\ rpc = "swept"
    /\ commits = 1
    /\ db_errors = 0
    /\ \E d \in Keys(run_start_store) :
          /\ Get(run_start_store, d).status = "orphan"
          /\ Get(store, d).status = "active"
          /\ Get(store, d).timestamp = Strftime(now)
    /\ \E d \in Keys(run_start_store) :
          /\ Get(run_start_store, d).status = "orphan"
          /\ Get(run_start_store, d).metadata # NULL
          /\ Get(store, d) = Get(run_start_store, d)

(***************************************************************************)
(* C31: per-domain fault isolation.  A domain whose serial cannot be       *)
(* obtained, or whose correction fails, has an entry with status error and *)
(* is counted in error_count; the loop still processes every domain that   *)
(* was selected, and the pass saves the tracking map when the loop ends.   *)
(***************************************************************************)
C31_FaultIsolation ==
    LET done == results.domains
        failed == {i \in 1..Len(done) :
                     \/ bind_serial[done[i].domain] = <<>>
                     \/ pdns_serial[done[i].domain] = <<>>
                     \/ done[i].message = "Critical SOA drift detected"}
        t == run_start_store
        batch == SelectBatch(SortByTimestamp(t, new_domains(t)),
                             SortByTimestamp(t, existing_domains(t)),
                             SortByTimestamp(t, orphan_domains(t)),
                             distribution, max_domains)
    IN  /\ rpc \in {"pq_loop", "save", "pq_return"} =>
            /\ \A i \in failed : done[i].status = "error"
            /\ results.error_count >= Cardinality(failed)
        /\ rpc \in {"save", "pq_return"} =>
            /\ Len(done) = Len(batch)
            /\ \A i \in 1..Len(batch) : done[i].domain = batch[i].domain
            /\ save_map = domain_tracking
            /\ \A i \in 1..Len(done) : Get(save_map, done[i].domain).timestamp = current_time
        /\ (rpc = "pq_return" /\ db_errors = 0) =>
            /\ commits = 1
            /\ \A i \in 1..Len(done) : Get(store, done[i].domain).timestamp = current_time

\* The pass has returned and saved; the first domain it processed failed and
\* a domain processed after it did not.
C31_Witness ==
    /\ rpc = "pq_return"
    /\ db_errors = 0
    /\ commits = 1
    /\ Len(results.domains) >= 2
    /\ results.domains[1].status = "error"
    /\ results.domains[1].message # "Critical SOA drift detected"
    /\ results.domains[2].status = "success"
    /\ results.error_count = 1


\* C32: a SIGTERM or SIGINT delivered while a domain is being reconciled does
\* not interrupt that domain: the process never leaves the loop for its exit
\* with a correction written and the re-check of that correction not made.
C32_NoMidDomainCancel ==
    [][(rpc = "pq_loop" /\ rpc' = "idle") => bind_serial' = bind_serial]_vars

\* C33: when a selected domain has a critical drift and its write-mode
\* correction succeeds, the entry of the domain carries the status and the
\* message of the check made after the correction; in dry-run mode, or when
\* the correction fails, nothing is written and the entry keeps the status
\* and the message of the check that found the drift.
C33_EntryAfterRecheck ==
    [][(rpc = "pq_loop" /\ rpc' = "pq_loop"
          /\ Len(results'.domains) = Len(results.domains) + 1) =>
         LET d == Head(todo).domain
             s == check_zone_sync(d)
             e == results'.domains[Len(results'.domains)]
             corrected == bind_serial'[d] # bind_serial[d]
             u == sync_result(bind_serial'[d], pdns_serial'[d])
         IN  /\ e.domain = d
             /\ corrected => IsCritical(s) /\ ~dryrun
             /\ corrected => e.status = u.sync_status /\ e.message = u.error_message
             /\ ~corrected => e.status = s.sync_status /\ e.message = s.error_message
             /\ (IsCritical(s) /\ dryrun) => ~corrected /\ e.status = "error"
             /\ \A i \in 1..Len(results.domains) : results'.domains[i] = results.domains[i]]_vars

\* A write-mode run whose first domain had a critical drift and, corrected,
\* is reported with the warning of the re-check.
C33_Witness ==
    /\ rpc = "pq_loop"
    /\ ~dryrun
    /\ fix_calls # {}
    /\ Len(results.domains) = 1
    /\ results.error_count = 1
    /\ results.domains[1].status = "warning"
    /\ results.domains[1].message = "SOA drift detected"

\* C34: in a bulk run the scheduler selects from the domain states as the
\* promote/demote step of this run left them: the map the queues are built
\* from holds every domain of the map of that step, with the same status, so
\* that a domain promoted in this run can be selected, and no domain that this
\* run demoted to inactive is reconciled.
C34_SelectsFromThisRun ==
    (rpc \in {"pq_loop", "save", "pq_return"} /\ tracking # <<>>) =>
       /\ \A d \in Keys(tracking) :
             /\ Has(domain_tracking, d)
             /\ Get(domain_tracking, d).status = Get(tracking, d).status
       /\ \A i \in 1..Len(results.domains) :
             Get(tracking, results.domains[i].domain).status # "inactive"

\* C35: correction converges: when a correction has written a new serial to
\* BIND and the serial of PowerDNS is the one it was, the drift the re-check
\* measures is smaller than the drift that triggered the correction,
\* whichever side was behind.
C35_CorrectionConverges ==
    [][\A d \in AllDomains :
          (bind_serial'[d] # bind_serial[d] /\ pdns_serial'[d] = pdns_serial[d]) =>
             calculate_soa_drift(bind_serial'[d], pdns_serial'[d])[1]
               < calculate_soa_drift(bind_serial[d], pdns_serial[d])[1]]_vars

\* C36: acquire_lock takes over an existing lock file only when the holder
\* the file records does not exist and the lock is older than the staleness
\* threshold: a process that opens the existing file for writing, which
\* truncates it, has these two facts true of the file at that time.
C36_TakeOverOnlyDeadAndStale ==
    [][\A p \in Procs :
          (lpc[p] = "open" /\ lpc'[p] = "write" /\ lock_path # NoFile) =>
             LET data == LockData(lock_path)
             IN  /\ data # <<>>
                 /\ ~PidExists(data[1].pid)
                 /\ now - data[1].timestamp > Seconds(LOCK_STALE_THRESHOLD)]_vars

\* C37: release_lock removes the lock file only if the releasing process owns
\* it: whatever another process's acquire_lock does in between, the file a
\* process unlinks does not record the PID of another process and is not a
\* file another process holds the flock on.
C37_UnlinkOnlyOwnLock ==
    [][\A p \in Procs :
          (lpc[p] = "unlink" /\ lock_path # NoFile /\ lock_path' = NoFile) =>
             /\ LockData(lock_path) = <<>> \/ LockData(lock_path)[1].pid = p
             /\ inodes[lock_path].flock \in {0, p}]_vars

\* C38: the destructive cleanup is applied only to domains absent from the
\* affiliated set: no domain that a write-mode handle_removed_zones takes for
\* removal from PowerDNS and from the store is an affiliated domain.
C38_CleanupOnlyUnaffiliated ==
    ~dryrun => \A i \in 1..Len(removed) : removed[i] \notin affiliated

\* C39: at the end of a scheduler run total_processed is the sum of the three
\* counts and the number of entries, each processed domain has one entry, and
\* each count is the number of entries that carry its status, also when a
\* correction has overwritten the status of an entry.
C39_SummaryConsistent ==
    rpc = "pq_return" =>
       LET done == results.domains
           With(st) == {i \in 1..Len(done) : done[i].status = st}
       IN  /\ results.total_processed
                = results.success_count + results.warning_count + results.error_count
           /\ results.total_processed = Len(done)
           /\ \A i, j \in 1..Len(done) : done[i].domain = done[j].domain => i = j
           /\ results.success_count = Cardinality(With("success"))
           /\ results.warning_count = Cardinality(With("warning"))
           /\ results.error_count = Cardinality(With("error"))

\* C40: retry is bounded: a call of a decorated method makes at most
\* max_retries + 1 attempts, returns at the first attempt that returns,
\* re-raises the error of the last attempt when all have failed, and sleeps
\* once between two attempts and never after the last.
C40_RetryBounded ==
    /\ [](/\ retry_count <= max_retries + 1
          /\ ad_pc \in {"try", "request"} =>
                retry_count <= max_retries /\ backoffs = retry_count
          /\ (ad_pc = "idle" /\ ad_outcome \in {"circuit_open", "exception"}) =>
                retry_count = max_retries + 1 /\ backoffs = max_retries
          /\ (ad_pc = "idle" /\ ad_outcome \notin {"none", "circuit_open", "exception"}) =>
                retry_count <= max_retries /\ backoffs = retry_count)
    /\ [][LET left == ad_pc = "request" /\ ad_pc' # "request"
               raised == body_raises(ad_op, last_response')
           IN  /\ (left /\ ~raised) =>
                      (/\ ad_pc' = "idle"
                       /\ ad_outcome' = body_value(ad_op, last_response')
                       /\ retry_count' = retry_count
                       /\ backoffs' = backoffs)
               /\ (left /\ raised) =>
                      (/\ retry_count' = retry_count + 1
                       /\ IF retry_count = max_retries
                            THEN ad_pc' = "idle" /\ ad_outcome' = "exception"
                            ELSE ad_pc' = "try" /\ ad_outcome' = "none")
               /\ (ad_pc = "try" /\ ad_pc' = "idle") =>
                      (retry_count = max_retries /\ ad_outcome' = "circuit_open")]_vars

\* A call whose four attempts all raised: three sleeps, and the exception of
\* the fourth attempt reaches the caller.
C40_Witness ==
    /\ ad_pc = "idle"
    /\ ad_outcome = "exception"
    /\ retry_count = max_retries + 1
    /\ backoffs = max_retries

=============================================================================
